---------------------------- MODULE Spec2Model ----------------------------
(***************************************************************************)
(* Verification model of qtstream, the host side of the USB "QuickTime     *)
(* Stream" protocol: the frame reassembler (QuickTime::read), the typed    *)
(* value codec (QTValue), and the protocol loop (QuickTime::run with its   *)
(* SYNC/ASYN handlers, the consumer channel and the teardown in Drop).     *)
(*                                                                         *)
(* Bytes are integers 0..255 and buffers are sequences of bytes.  64-bit   *)
(* quantities that travel on the wire are kept as their 8 little-endian    *)
(* bytes, because the checker's integers are 32 bits wide.                 *)
(***************************************************************************)
EXTENDS Integers, Sequences, FiniteSets, TLC

VARIABLES
    \* ---- QuickTime (src/src/qt.rs:16-29) ----
    packet_pool,      \* reassembly buffer (bytes)
    \* ---- the reassembler harness ----
    stream,           \* bytes the device has still to deliver
    sent,             \* the packets the device put on the stream, in order
    delivered,        \* the packets read() has returned so far, in order
    rstatus,          \* "ok" | "err" | "panic": outcome of the calls of read() so far
    nreads,           \* number of non-empty bulk chunks handed to read()
    \* ---- the QT-value codec harness ----
    qv_in,            \* a QTValue
    qv_bytes,         \* the bytes of qv_in.as_qt_packet().as_bytes()
    qv_out,           \* the result of QTValue::from_qt_packet on those bytes
    qv_pc,            \* "new" | "serialized" | "parsed"
    \* ---- the wire-format harness ----
    wire_in,          \* bytes as the device sends them: a descriptor or a value node
    wire_out,         \* the result of parsing wire_in
    wire_bytes,       \* the bytes of as_qt_packet().as_bytes() of the parsed descriptor
    wire_again,       \* the result of parsing wire_bytes
    wire_pc,          \* "descriptor" | "value" | "parsed" | "serialized" | "reparsed"
    \* ---- the USB device layer (src/src/apple.rs) ----
    usb_list,         \* the attached devices, in the order libusb lists them
    usb_sn,           \* the serial prefix get_usb_device is called with
    usb_got,          \* the result of get_usb_device; kind "none" before the call
    usb_iface,        \* whether the device exposes the QuickTime interface now
    usb_view,         \* whether the descriptors behind self.device show it
    usb_stale,        \* whether self.handle is of a device instance that is gone
    usb_pending,      \* a mode switch the device has accepted: "none" | "on" | "off"
    usb_log,          \* the calls of set_qt_enabled so far, in order
    init_log,         \* the steps QuickTime::init has taken, in order, with their outcome
    \* ---- the protocol loop, the channel and the consumer ----
    qt,               \* the clocks and time records of QuickTime (qt.rs:16-29)
    term,             \* QuickTime.term, the cancellation flag
    chan,             \* items buffered in the sync_channel, oldest first
    pc,               \* the protocol thread: "run" | "send" | "drop" | "done"
    pending,          \* the sample buffer a handler is blocked in tx.send() with
    run_result,       \* "none" | "ok" | "err" | "panic" | "abort" | "killed"
    exit_fault,            \* what ended the loop: "none" | "cancel" | "read" | "write"
                      \*   | "frame" | "handler" | "channel"
    consumer,         \* main's loop: "recv" | "joining" | "done" | "panicked" | "aborted"
    host_now,              \* the host's wall clock
    last_pass,             \* the latest pass of the loop: packet read, packets written
    teardown,         \* the exit events so far, in order
    \* ---- the record of what went through the channel ----
    order_log,        \* whether this behaviour keeps the record
    dispatched,       \* the 'eat!' and 'feed' packets handed to handle_asyn_pkt, in order
    received          \* the sample buffers rx.recv() has returned, in order

readVars == <<stream, sent, delivered, rstatus, nreads>>

wireVars == <<wire_in, wire_out, wire_bytes, wire_again, wire_pc>>

usbVars ==
    <<usb_list, usb_sn, usb_got, usb_iface, usb_view, usb_stale, usb_pending, usb_log,
      init_log>>

valueVars == <<qv_in, qv_bytes, qv_out, qv_pc, wireVars, usbVars>>

orderVars == <<order_log, dispatched, received>>

mainVars ==
    <<qt, term, chan, pc, pending, run_result, exit_fault, consumer, host_now,
      last_pass, teardown, orderVars>>

vars == <<packet_pool, readVars, valueVars, mainVars>>

(***************************************************************************)
(* Bytes and little-endian integers                                        *)
(***************************************************************************)
\* Bind([x \in {e} |-> body]) is body with x naming the value of e: the value is
\* computed once, where it is bound, as a Rust `let x = e;` does
Bind(f) == f[CHOOSE x \in DOMAIN f : TRUE]

Byte == 0..255

Take(s, n) == SubSeq(s, 1, n)

Drop(s, n) == SubSeq(s, n + 1, Len(s))

\* byteorder write_u32::<LittleEndian>
U32LE(n) ==
    << n % 256, (n \div 256) % 256, (n \div 65536) % 256, (n \div 16777216) % 256 >>

\* u32::from_le_bytes on the four bytes that start at 0-based offset off
U32At(buf, off) ==
    buf[off + 1] + 256 * buf[off + 2] + 65536 * buf[off + 3] + 16777216 * buf[off + 4]

(***************************************************************************)
(* QTPacket: a byte vector with a cursor (src/src/qt_pkt.rs)               *)
(***************************************************************************)
Pkt(buf, pos) == [buf |-> buf, pos |-> pos]

NoPkt == Pkt(<< >>, 0)

\* QTPacket::from_bytes: indexes data[0..3] unchecked, so fewer than four
\* bytes is an index-out-of-bounds panic.
FromBytes(data) ==
    IF Len(data) < 4 THEN [kind |-> "panic", pkt |-> NoPkt]
    ELSE Bind([pkt_len \in {U32At(data, 0)} |->
         IF Len(data) < pkt_len THEN [kind |-> "err", pkt |-> NoPkt]
         ELSE [kind |-> "ok", pkt |-> Pkt(Take(data, pkt_len), 4)]])

\* QTPacket::new: four bytes reserved for the length, cursor at the end
QTPacketNew == <<0, 0, 0, 0>>

\* an as_bytes that sends the header only
AsBytesHeaderOnly(buf) == U32LE(Len(buf)) \o SubSeq(buf, 5, 8)

\* QTPacket::as_bytes: patch the length into the first four bytes
AsBytes(buf) == U32LE(Len(buf)) \o Drop(buf, 4)

\* read_u32 at the cursor: UnexpectedEof when fewer than four bytes remain
RdU32(p) ==
    IF p.pos + 4 > Len(p.buf) THEN [ok |-> FALSE, v |-> 0, p |-> p]
    ELSE [ok |-> TRUE, v |-> U32At(p.buf, p.pos), p |-> Pkt(p.buf, p.pos + 4)]

\* read_exact of n bytes at the cursor
RdBytes(p, n) ==
    IF p.pos + n > Len(p.buf) THEN [ok |-> FALSE, v |-> << >>, p |-> p]
    ELSE [ok |-> TRUE, v |-> SubSeq(p.buf, p.pos + 1, p.pos + n),
          p |-> Pkt(p.buf, p.pos + n)]

\* QTPacket::read_qt_packet: the next size bytes as a packet of their own,
\* behind a fresh four-byte length slot, cursor at 4
ReadQtPacket(p, size) ==
    Bind([d \in {RdBytes(p, size)} |->
    [ok |-> d.ok, new |-> Pkt(QTPacketNew \o d.v, 4), p |-> d.p]])

(***************************************************************************)
(* QTValue (src/src/qt_value.rs).  Every value is a record of one shape:   *)
(* tag names the variant, and the variant's content is in bytes (strings,  *)
(* data, the raw bits of a u64 or an f64), num (u32, u16), flag (bool) or  *)
(* kids (the key and value of a pair, the items of an Object).             *)
(***************************************************************************)
MAGIC_KEY_VALUE_PAIR == 1801812342

MAGIC_KEY_STRING == 1937011307

MAGIC_KEY_BOOLEAN == 1651862646

MAGIC_KEY_DICTIONARY == 1684628340

MAGIC_KEY_DATA_VALUE == 1684108406

MAGIC_KEY_STRING_VALUE == 1937011318

MAGIC_KEY_NUMBER_VALUE == 1852662390

MAGIC_KEY_IDX == 1768192107

MAGIC_FORMAT_DESCRIPTOR == 1717859171

\* Option<T>: None is [some |-> FALSE] over a default of T's shape
Some(v) == [some |-> TRUE, v |-> v]

None(default) == [some |-> FALSE, v |-> default]

\* AVC1 (src/src/coremedia/format_desc.rs:13-21)
AVC1(version, avc_profile, avc_compatibility, avc_level, nalu_len, sps, pps) ==
    [version |-> version, avc_profile |-> avc_profile,
     avc_compatibility |-> avc_compatibility, avc_level |-> avc_level,
     nalu_len |-> nalu_len, sps |-> sps, pps |-> pps]

NoAVC1 == AVC1(0, 0, 0, 0, 0, None(<< >>), None(<< >>))

\* The fields of a FormatDescriptor (format_desc.rs:110-118) other than its
\* media type and its extensions: the u32 fields as their four bytes, the
\* AudioStreamDescription as the 40 bytes of its nine fields.
FDFields(width, height, codec, has_extensions, avc1, asbd) ==
    [video_dimension_width |-> width, video_dimension_height |-> height,
     codec |-> codec, has_extensions |-> has_extensions, avc1 |-> avc1,
     audio_stream_basic_description |-> asbd]

ZERO32 == <<0, 0, 0, 0>>

NoFD == FDFields(ZERO32, ZERO32, ZERO32, FALSE, None(NoAVC1), None(<< >>))

QTV(tag, bytes, num, flag, kids) ==
    [tag |-> tag, bytes |-> bytes, num |-> num, flag |-> flag, kids |-> kids,
     fd |-> NoFD]

\* QTValue::FormatDescriptor: num is the media type, kids the extensions
FormatDescriptor(media_type, fields, extensions) ==
    [tag |-> "FormatDescriptor", bytes |-> << >>, num |-> media_type,
     flag |-> FALSE, kids |-> extensions, fd |-> fields]

StringKey(s) == QTV("StringKey", s, 0, FALSE, << >>)

StringValue(s) == QTV("StringValue", s, 0, FALSE, << >>)

Boolean(b) == QTV("Boolean", << >>, 0, b, << >>)

KeyValuePair(k, v) == QTV("KeyValuePair", << >>, 0, FALSE, <<k, v>>)

Object(arr) == QTV("Object", << >>, 0, FALSE, arr)

Float(bits) == QTV("Float", bits, 0, FALSE, << >>)

UInt32(n) == QTV("UInt32", << >>, n, FALSE, << >>)

UInt64(bits) == QTV("UInt64", bits, 0, FALSE, << >>)

Data(d) == QTV("Data", d, 0, FALSE, << >>)

IdxKey(i) == QTV("IdxKey", << >>, i, FALSE, << >>)

NoValue == QTV("none", << >>, 0, FALSE, << >>)

\* QTValue::get_magic
GetMagic(v) ==
    CASE v.tag = "StringKey" -> MAGIC_KEY_STRING
      [] v.tag = "StringValue" -> MAGIC_KEY_STRING_VALUE
      [] v.tag = "Boolean" -> MAGIC_KEY_BOOLEAN
      [] v.tag = "KeyValuePair" -> MAGIC_KEY_VALUE_PAIR
      [] v.tag = "Object" -> MAGIC_KEY_DICTIONARY
      [] v.tag = "Data" -> MAGIC_KEY_DATA_VALUE
      [] v.tag \in {"Float", "UInt32", "UInt64"} -> MAGIC_KEY_NUMBER_VALUE
      [] v.tag = "IdxKey" -> MAGIC_KEY_IDX
      [] v.tag = "FormatDescriptor" -> MAGIC_FORMAT_DESCRIPTOR

\* QTValue::as_qt_packet: the packet's buffer, its length slot still zero
RECURSIVE QTValueAsQtPacket(_)
RECURSIVE FormatDescriptorAsQtPacket(_)
RECURSIVE WriteAll(_)
\* a WriteAll that copies each child without as_bytes: length slots stay zero
RECURSIVE WriteAllUnsized(_)
WriteAllUnsized(arr) ==
    IF arr = << >> THEN << >>
    ELSE QTValueAsQtPacket(Head(arr)) \o WriteAllUnsized(Tail(arr))

\* the children of a KeyValuePair or an Object, each through as_bytes
\* (qt_value.rs:92-135)
WriteAll(arr) ==
    IF arr = << >> THEN << >>
    ELSE AsBytes(QTValueAsQtPacket(Head(arr))) \o WriteAll(Tail(arr))

QTValueAsQtPacket(v) ==
    QTPacketNew \o U32LE(GetMagic(v)) \o
    CASE v.tag \in {"StringKey", "StringValue", "Data"} -> v.bytes
      [] v.tag = "Boolean" -> IF v.flag THEN <<1>> ELSE <<0>>
      [] v.tag \in {"KeyValuePair", "Object"} -> WriteAll(v.kids)
      [] v.tag = "Float" -> <<6>> \o v.bytes
      [] v.tag = "UInt32" -> <<3>> \o U32LE(v.num)
      [] v.tag = "UInt64" -> <<4>> \o v.bytes
      [] v.tag = "IdxKey" -> << v.num % 256, (v.num \div 256) % 256 >>
      [] v.tag = "FormatDescriptor" -> AsBytes(FormatDescriptorAsQtPacket(v))

\* The result of a parse: kind is "ok", "err" (an Err value, err its
\* ErrorKind) or "panic"; p is the packet with its cursor after the parse.
POk(val, p) == [kind |-> "ok", err |-> "", val |-> val, p |-> p]

PErr(e, p) == [kind |-> "err", err |-> e, val |-> NoValue, p |-> p]

PPanic(p) == [kind |-> "panic", err |-> "", val |-> NoValue, p |-> p]

\* String::from_utf8, for the single-byte code points the model's strings use
Utf8Valid(data) == \A i \in 1..Len(data) : data[i] < 128

\* qt_value.rs:262-269: 'strv' is decoded as a StringKey too
StringFromMagic(magic, data) == StringKey(data)

\* qt_value.rs:255-293: a node whose body is plain bytes.  pkt_len - 8
\* underflows when pkt_len < 8 (an overflow panic, or a wrapped huge
\* allocation); data[i] beyond the body is an index panic.
LeafFromQtPacket(pkt_len, magic, q) ==
    IF pkt_len < 8 THEN PPanic(q)
    ELSE Bind([d \in {RdBytes(q, pkt_len - 8)} |->
             LET data == d.v
         IN
         IF ~d.ok THEN PErr("UnexpectedEof", q)
         ELSE CASE magic \in {MAGIC_KEY_STRING, MAGIC_KEY_STRING_VALUE} ->
                     IF Utf8Valid(data) THEN POk(StringFromMagic(magic, data), d.p)
                     ELSE PErr("InvalidData", d.p)
                [] magic = MAGIC_KEY_BOOLEAN ->
                     IF Len(data) < 1 THEN PPanic(d.p)
                     ELSE IF data[1] = 0 THEN POk(Boolean(FALSE), d.p)
                     ELSE IF data[1] = 1 THEN POk(Boolean(TRUE), d.p)
                     ELSE PErr("InvalidData", d.p)
                [] magic = MAGIC_KEY_DATA_VALUE -> POk(Data(data), d.p)
                [] magic = MAGIC_KEY_NUMBER_VALUE ->
                     IF Len(data) < 1 THEN PPanic(d.p)
                     ELSE IF data[1] \in {6, 4} THEN
                         IF Len(data) < 9 THEN PPanic(d.p)
                         ELSE IF data[1] = 6 THEN POk(Float(SubSeq(data, 2, 9)), d.p)
                         ELSE POk(UInt64(SubSeq(data, 2, 9)), d.p)
                     ELSE IF data[1] \in {5, 3} THEN
                         IF Len(data) < 5 THEN PPanic(d.p)
                         ELSE POk(UInt32(U32At(data, 1)), d.p)
                     ELSE PErr("InvalidData", d.p)
                [] magic = MAGIC_KEY_IDX ->
                     IF Len(data) < 2 THEN PPanic(d.p)
                     ELSE POk(IdxKey(data[1] + 256 * data[2]), d.p)
                [] OTHER -> PErr("InvalidData", d.p)])

\* The result of reading a nested packet: new is the nested packet, p the
\* enclosing packet after it, magic the nested packet's magic when read.
NOk(new, magic, p) == [kind |-> "ok", err |-> "", new |-> new, magic |-> magic, p |-> p]

NErr(e, p) == [kind |-> "err", err |-> e, new |-> NoPkt, magic |-> 0, p |-> p]

NPanic(p) == [kind |-> "panic", err |-> "", new |-> NoPkt, magic |-> 0, p |-> p]

\* QTPacket::from_qt_packet (qt_pkt.rs:84-116).  The declared length is
\* compared with the whole length of the enclosing buffer; the copy keeps
\* four zero bytes in front; &mut buffer[4..] of a 1..3 byte buffer panics.
FromQtPacket(pkt) ==
    Bind([l \in {RdU32(pkt)} |->
    IF ~l.ok THEN NErr("UnexpectedEof", pkt)
    ELSE LET read_pkt_len == l.v IN
         IF Len(pkt.buf) < read_pkt_len THEN NErr("UnexpectedEof", l.p)
         ELSE IF read_pkt_len = 0 THEN NOk(Pkt(<< >>, 4), 0, l.p)
         ELSE IF read_pkt_len < 4 THEN NPanic(l.p)
         ELSE Bind([d \in {RdBytes(l.p, read_pkt_len - 4)} |->
              IF ~d.ok THEN NErr("UnexpectedEof", l.p)
              ELSE NOk(Pkt(ZERO32 \o d.v, 4), 0, d.p)])])

\* QTPacket::read_qt_packet_with_magic (qt_pkt.rs:70-82)
ReadQtPacketWithMagic(pkt) ==
    Bind([r \in {FromQtPacket(pkt)} |->
    IF r.kind # "ok" THEN r
    ELSE Bind([m \in {RdU32(r.new)} |->
         IF ~m.ok THEN NErr("UnexpectedEof", r.p)
         ELSE NOk(m.p, m.v, r.p)])])

\* QTPacket::from_qt_packet_with_magic (qt_pkt.rs:49-68)
FromQtPacketWithMagic(pkt, magic) ==
    Bind([r \in {ReadQtPacketWithMagic(pkt)} |->
    IF r.kind = "ok" /\ r.magic # magic THEN NErr("InvalidData", r.p)
    ELSE r])

\* a parameter-set loop that reads the u16 lengths little-endian
RECURSIVE NaluLoopLittleEndian(_, _, _, _)
NaluLoopLittleEndian(data, pos, n, last) ==
    IF n = 0 THEN [ok |-> TRUE, pos |-> pos, last |-> last]
    ELSE IF pos + 2 > Len(data) THEN [ok |-> FALSE, pos |-> pos, last |-> last]
    ELSE IF pos + 2 + data[pos + 1] + 256 * data[pos + 2] > Len(data)
    THEN [ok |-> FALSE, pos |-> pos, last |-> last]
    ELSE NaluLoopLittleEndian(data, pos + 2 + data[pos + 1] + 256 * data[pos + 2], n - 1,
             Some(SubSeq(data, pos + 3, pos + 2 + data[pos + 1] + 256 * data[pos + 2])))

\* The loops of AVC1::from_vec (format_desc.rs:61-74, 83-96): n parameter
\* sets, each [u16 big-endian length][bytes]; the last one read is kept.
RECURSIVE NaluLoop(_, _, _, _)
NaluLoop(data, pos, n, last) ==
    IF n = 0 THEN [ok |-> TRUE, pos |-> pos, last |-> last]
    ELSE IF pos + 2 > Len(data) THEN [ok |-> FALSE, pos |-> pos, last |-> last]
    ELSE LET len == 256 * data[pos + 1] + data[pos + 2] IN
         IF pos + 2 + len > Len(data) THEN [ok |-> FALSE, pos |-> pos, last |-> last]
         ELSE NaluLoop(data, pos + 2 + len, n - 1,
                       Some(SubSeq(data, pos + 3, pos + 2 + len)))

\* AVC1::sps and AVC1::pps (format_desc.rs:24-30): expect() on the Option
AVC1Sps(a) ==
    IF a.sps.some THEN [kind |-> "ok", v |-> a.sps.v] ELSE [kind |-> "panic", v |-> << >>]

AVC1Pps(a) ==
    IF a.pps.some THEN [kind |-> "ok", v |-> a.pps.v] ELSE [kind |-> "panic", v |-> << >>]

\* AVC1::from_vec (format_desc.rs:32-107)
AVC1FromVec(data) ==
    IF Len(data) < 6 THEN [ok |-> FALSE, avc1 |-> NoAVC1]
    ELSE Bind([sps \in {NaluLoop(data, 6, data[6] % 32, None(<< >>))} |->
         IF ~sps.ok \/ sps.pos + 1 > Len(data) THEN [ok |-> FALSE, avc1 |-> NoAVC1]
         ELSE Bind([pps \in {NaluLoop(data, sps.pos + 1, data[sps.pos + 1] % 32, None(<< >>))} |->
              IF ~pps.ok THEN [ok |-> FALSE, avc1 |-> NoAVC1]
              ELSE [ok |-> TRUE,
                    avc1 |-> AVC1(data[1], data[2], data[3], data[4],
                                  (data[5] % 4) + 1, sps.last, pps.last)]])])

MAGIC_AUDIO_STREAM_DESCRIPTION == 1634951780

MAGIC_VIDEO_DIMENSION == 1986292077

MAGIC_EXTENSION == 1702392942

MAGIC_MEDIA_TYPE == 1835297121

MAGIC_CODEC == 1668244579

MEDIA_TYPE_VIDEO == 1986618469

MEDIA_TYPE_SOUND == 1936684398

\* AudioStreamDescription::from_qt_packet (audio_desc.rs:43-100): one f64
\* and eight u32, 40 bytes
ASBD_FIELD_BYTES == 40

\* format_desc.rs:222-251: the AVCC bytes under IdxKey(49) -> Object whose
\* first entry is IdxKey(105) -> Data.  Each expect() on that path panics.
ExtensionAVC1(extension, avc1) ==
    LET NoChange == [kind |-> "ok", avc1 |-> avc1]
        Panic == [kind |-> "panic", avc1 |-> avc1]
    IN
    IF extension.tag # "KeyValuePair" THEN NoChange
    ELSE LET key == extension.kids[1]
             value == extension.kids[2]
         IN
         IF key.tag # "IdxKey" \/ key.num # 49 THEN NoChange
         ELSE IF value.tag # "Object" THEN Panic
         ELSE IF Len(value.kids) = 0 THEN NoChange
         ELSE LET first == value.kids[1] IN
              IF first.tag # "KeyValuePair" THEN Panic
              ELSE IF first.kids[1].tag # "IdxKey" THEN Panic
              ELSE IF first.kids[1].num # 105 THEN NoChange
              ELSE IF first.kids[2].tag # "Data" THEN Panic
              ELSE Bind([a \in {AVC1FromVec(first.kids[2].bytes)} |->
                   IF a.ok THEN [kind |-> "ok", avc1 |-> Some(a.avc1)]
                   ELSE [kind |-> "err", avc1 |-> avc1]])

\* QTValue::from_qt_packet (qt_value.rs:197-294) and
\* FormatDescriptor::from_qt_packet (format_desc.rs:139-268)
RECURSIVE QTValueFromQtPacket(_)
RECURSIVE DictItems(_, _)
RECURSIVE Extensions(_, _, _)
\* the loop of format_desc.rs:213-254 over the 'extn' packet
Extensions(extension_pkt, extensions, avc1) ==
    Bind([e \in {QTValueFromQtPacket(extension_pkt)} |->
    IF e.kind = "err" /\ e.err = "UnexpectedEof"
    THEN [kind |-> "ok", err |-> "", extensions |-> extensions, avc1 |-> avc1]
    ELSE IF e.kind # "ok"
    THEN [kind |-> e.kind, err |-> e.err, extensions |-> extensions, avc1 |-> avc1]
    ELSE Bind([a \in {ExtensionAVC1(e.val, avc1)} |->
         IF a.kind = "panic"
         THEN [kind |-> "panic", err |-> "", extensions |-> extensions, avc1 |-> avc1]
         ELSE IF a.kind = "err"
         THEN [kind |-> "err", err |-> "UnexpectedEof", extensions |-> extensions,
               avc1 |-> avc1]
         ELSE Extensions(e.p, Append(extensions, e.val), a.avc1)])])

FormatDescriptorFromQtPacket(pkt) ==
    Bind([mdia \in {FromQtPacketWithMagic(pkt, MAGIC_MEDIA_TYPE)} |->
    IF mdia.kind = "panic" THEN PPanic(mdia.p)
    ELSE IF mdia.kind = "err" THEN PErr(mdia.err, mdia.p)
    ELSE Bind([media_type \in {RdU32(mdia.new)} |->
    IF ~media_type.ok THEN PErr("UnexpectedEof", mdia.p)
    ELSE IF media_type.v = MEDIA_TYPE_SOUND THEN
        Bind([asdb \in {FromQtPacketWithMagic(mdia.p, MAGIC_AUDIO_STREAM_DESCRIPTION)} |->
        IF asdb.kind = "panic" THEN PPanic(asdb.p)
        ELSE IF asdb.kind = "err" THEN PErr(asdb.err, asdb.p)
        ELSE Bind([asd \in {RdBytes(asdb.new, ASBD_FIELD_BYTES)} |->
             IF ~asd.ok THEN PErr("UnexpectedEof", asdb.p)
             ELSE POk(FormatDescriptor(MEDIA_TYPE_SOUND,
                          FDFields(ZERO32, ZERO32, ZERO32, FALSE, None(NoAVC1),
                                   Some(asd.v)),
                          << >>), asdb.p)])])
    ELSE IF media_type.v = MEDIA_TYPE_VIDEO THEN
        Bind([vdim \in {FromQtPacketWithMagic(mdia.p, MAGIC_VIDEO_DIMENSION)} |->
        IF vdim.kind = "panic" THEN PPanic(vdim.p)
        ELSE IF vdim.kind = "err" THEN PErr(vdim.err, vdim.p)
        ELSE Bind([wh \in {RdBytes(vdim.new, 8)} |->
        IF ~wh.ok THEN PErr("UnexpectedEof", vdim.p)
        ELSE Bind([codc \in {FromQtPacketWithMagic(vdim.p, MAGIC_CODEC)} |->
        IF codc.kind = "panic" THEN PPanic(codc.p)
        ELSE IF codc.kind = "err" THEN PErr(codc.err, codc.p)
        ELSE Bind([codec \in {RdBytes(codc.new, 4)} |->
        IF ~codec.ok THEN PErr("UnexpectedEof", codc.p)
        ELSE Bind([extn \in {FromQtPacketWithMagic(codc.p, MAGIC_EXTENSION)} |->
        IF extn.kind = "panic" THEN PPanic(extn.p)
        ELSE IF extn.kind = "err" THEN PErr(extn.err, extn.p)
        ELSE Bind([x \in {Extensions(extn.new, << >>, None(NoAVC1))} |->
             IF x.kind = "panic" THEN PPanic(extn.p)
             ELSE IF x.kind = "err" THEN PErr(x.err, extn.p)
             ELSE POk(FormatDescriptor(MEDIA_TYPE_VIDEO,
                          FDFields(Take(wh.v, 4), Drop(wh.v, 4), codec.v, TRUE,
                                   x.avc1, None(<< >>)),
                          x.extensions), extn.p)])])])])])])
    ELSE PErr("InvalidData", mdia.p)])])

\* the loop of qt_value.rs:227-240: UnexpectedEof ends the dictionary
DictItems(obj_pkt, arr) ==
    Bind([e \in {QTValueFromQtPacket(obj_pkt)} |->
    IF e.kind = "ok" THEN DictItems(e.p, Append(arr, e.val))
    ELSE IF e.kind = "err" /\ e.err = "UnexpectedEof" THEN POk(Object(arr), obj_pkt)
    ELSE e])

QTValueFromQtPacket(pkt) ==
    Bind([l \in {RdU32(pkt)} |->
    IF ~l.ok THEN PErr("UnexpectedEof", pkt)
    ELSE Bind([m \in {RdU32(l.p)} |->
    IF ~m.ok THEN PErr("UnexpectedEof", l.p)
    ELSE LET pkt_len == l.v
             magic == m.v
             q == m.p
         IN
         CASE magic = MAGIC_KEY_VALUE_PAIR ->
                Bind([k \in {QTValueFromQtPacket(q)} |->
                IF k.kind # "ok" THEN k
                ELSE Bind([v \in {QTValueFromQtPacket(k.p)} |->
                     IF v.kind # "ok" THEN v
                     ELSE POk(KeyValuePair(k.val, v.val), v.p)])])
           [] magic = MAGIC_KEY_DICTIONARY ->
                IF pkt_len < 8 THEN PPanic(q)
                ELSE Bind([o \in {ReadQtPacket(q, pkt_len - 8)} |->
                     IF ~o.ok THEN PErr("UnexpectedEof", q)
                     ELSE Bind([items \in {DictItems(o.new, << >>)} |->
                          [items EXCEPT !.p = o.p]])])
           [] magic = MAGIC_FORMAT_DESCRIPTOR -> FormatDescriptorFromQtPacket(q)
           [] OTHER -> LeafFromQtPacket(pkt_len, magic, q)])])

\* AudioStreamDescription::as_buffer (audio_desc.rs:116-165): the nine
\* fields in the order from_qt_packet reads them, then the sample rate twice
AsBuffer(asd) == asd \o Take(asd, 8) \o Take(asd, 8)

\* FormatDescriptor::as_qt_packet (format_desc.rs:270-384): the packet's
\* buffer, its length slot still zero.  The media type is written into the
\* outer packet itself; 'codc' and 'extn' are written into the 'vdim' packet.
\* A media type other than sound or video is an Err, here the empty buffer.
FormatDescriptorAsQtPacket(d) ==
    IF d.num = MEDIA_TYPE_SOUND THEN
        QTPacketNew \o U32LE(MAGIC_MEDIA_TYPE) \o U32LE(d.num) \o
        AsBytes(QTPacketNew \o U32LE(MAGIC_AUDIO_STREAM_DESCRIPTION)
                    \o AsBuffer(d.fd.audio_stream_basic_description.v))
    ELSE IF d.num = MEDIA_TYPE_VIDEO THEN
        QTPacketNew \o U32LE(MAGIC_MEDIA_TYPE) \o U32LE(d.num) \o
        AsBytes(QTPacketNew \o U32LE(MAGIC_VIDEO_DIMENSION)
                    \o d.fd.video_dimension_width \o d.fd.video_dimension_height
                    \o AsBytes(QTPacketNew \o U32LE(MAGIC_CODEC) \o d.fd.codec)
                    \o (IF d.fd.has_extensions
                        THEN AsBytes(QTPacketNew \o U32LE(MAGIC_EXTENSION)
                                         \o WriteAll(d.kids))
                        ELSE << >>))
    ELSE << >>

(***************************************************************************)
(* 64-bit arithmetic on little-endian bytes                                *)
(***************************************************************************)
\* write_u64::<LittleEndian> of a value below 2^31
U64LE(n) == U32LE(n) \o ZERO32

RECURSIVE AddCarry(_, _)
AddCarry(b, c) ==
    IF b = << >> THEN << >>
    ELSE << (b[1] + c) % 256 >> \o AddCarry(Tail(b), (b[1] + c) \div 256)

RECURSIVE CarryOut(_, _)
CarryOut(b, c) == IF b = << >> THEN c ELSE CarryOut(Tail(b), (b[1] + c) \div 256)

\* a + n on u64: the wrapped sum, and whether it overflowed
AddU64(a, n) == [bytes |-> AddCarry(a, n), overflow |-> CarryOut(a, n) > 0]

RECURSIVE SubBorrow(_, _, _)
SubBorrow(a, b, br) ==
    IF a = << >> THEN << >>
    ELSE LET d == a[1] - b[1] - br IN
         << (d + 256) % 256 >> \o SubBorrow(Tail(a), Tail(b), IF d < 0 THEN 1 ELSE 0)

RECURSIVE BorrowOut(_, _, _)
BorrowOut(a, b, br) ==
    IF a = << >> THEN br
    ELSE BorrowOut(Tail(a), Tail(b), IF a[1] - b[1] - br < 0 THEN 1 ELSE 0)

\* a - b on u64: the wrapped difference, and whether it underflowed
SubU64(a, b) == [bytes |-> SubBorrow(a, b, 0), overflow |-> BorrowOut(a, b, 0) > 0]

(***************************************************************************)
(* Time and Clock (src/src/coremedia/time.rs, clock.rs)                    *)
(***************************************************************************)
NANO_SECOND_SCALE == 1000000000

KCM_TIME_FLAGS_HAS_BEEN_ROUNDED == 1

\* Time: value u64, scale u32, flags u32, epoch u64, each as its bytes
Time(value, scale, flags, epoch) ==
    [value |-> value, scale |-> scale, flags |-> flags, epoch |-> epoch]

NoTime == Time(U64LE(0), ZERO32, ZERO32, U64LE(0))

\* Time::as_bytes: 24 bytes
TimeAsBytes(t) == t.value \o t.scale \o t.flags \o t.epoch

\* Time::from_qt_packet: every read is an expect(), so a short packet panics
TimeFromQtPacket(p) ==
    Bind([d \in {RdBytes(p, 24)} |->
    IF ~d.ok THEN [kind |-> "panic", t |-> NoTime, p |-> p]
    ELSE [kind |-> "ok",
          t |-> Time(SubSeq(d.v, 1, 8), SubSeq(d.v, 9, 12), SubSeq(d.v, 13, 16),
                     SubSeq(d.v, 17, 24)),
          p |-> d.p]])

\* Clock::new_with_host_time: t is the instant of creation
Clock(id, t) == [id |-> id, time_scale |-> NANO_SECOND_SCALE, t |-> t]

NoClock == Clock(U64LE(0), 0)

\* Clock::get_time at instant now (nanoseconds elapsed since creation)
GetTime(clock, now) ==
    Time(U64LE(now - clock.t), U32LE(clock.time_scale),
         U32LE(KCM_TIME_FLAGS_HAS_BEEN_ROUNDED), U64LE(0))

\* Clock::calculate_skew (clock.rs:42-50).  The two u64 subtractions panic
\* on underflow in a build with overflow checks and wrap otherwise.  The
\* f64 quotient is not evaluated: bits stands for its IEEE-754 image, eight
\* bytes determined by the two differences.
CalculateSkew(st1, et1, st2, et2, checked) ==
    Bind([diff_clock1 \in {SubU64(et1.value, st1.value)} |->
        Bind([diff_clock2 \in {SubU64(et2.value, et1.value)} |->
    [panic |-> checked /\ (diff_clock1.overflow \/ diff_clock2.overflow),
     divisor_zero |-> diff_clock2.bytes = U64LE(0),
     bits |-> Take(diff_clock1.bytes, 4) \o Take(diff_clock2.bytes, 4)]])])

(***************************************************************************)
(* SampleBuffer (src/src/coremedia/sample.rs)                              *)
(***************************************************************************)
SBUF == 1935832422

OPTS == 1869640819

STIA == 1937008993

SDAT == 1935958388

SATT == 1935766644

SARY == 1935766137

SSIZ == 1936943482

NSMP == 1853058416

FREE == 1718773093

\* SampleBuffer::new
SampleBufferNew(media_type) ==
    [media_type |-> media_type,
     sary |-> None(<< >>),
     attachments |-> None(<< >>),
     sample_sizes |-> None(<< >>),
     sample_data |-> None(<< >>),
     sample_timing_info_array |-> None(<< >>),
     num_samples |-> ZERO32,
     format_description |-> None(NoValue),
     output_presentation_time_stamp |-> None(NoTime)]

\* sample.rs:130-136: SampleTimingInfo is three Times
RECURSIVE TimingInfos(_, _)
TimingInfos(inner, arr) ==
    IF ~(inner.pos < Len(inner.buf)) THEN [kind |-> "ok", arr |-> arr]
    ELSE Bind([duration \in {TimeFromQtPacket(inner)} |->
             Bind([pts \in {TimeFromQtPacket(duration.p)} |->
             Bind([dts \in {TimeFromQtPacket(pts.p)} |->
         IF duration.kind # "ok" \/ pts.kind # "ok" \/ dts.kind # "ok"
         THEN [kind |-> "panic", arr |-> arr]
         ELSE TimingInfos(dts.p, Append(arr, <<duration.t, pts.t, dts.t>>))])])])

\* sample.rs:144-150
RECURSIVE SampleSizes(_, _)
SampleSizes(inner, arr) ==
    IF ~(inner.pos < Len(inner.buf)) THEN [kind |-> "ok", arr |-> arr]
    ELSE Bind([n \in {RdBytes(inner, 4)} |->
         IF ~n.ok THEN [kind |-> "panic", arr |-> arr]
         ELSE SampleSizes(n.p, Append(arr, n.v))])

\* sample.rs:157-170: the QT-values of 'satt' and 'sary', each an expect()
RECURSIVE ValueArray(_, _)
ValueArray(inner, arr) ==
    IF ~(inner.pos < Len(inner.buf)) THEN [kind |-> "ok", arr |-> arr]
    ELSE Bind([e \in {QTValueFromQtPacket(inner)} |->
         IF e.kind # "ok" THEN [kind |-> "panic", arr |-> arr]
         ELSE ValueArray(e.p, Append(arr, e.val))])

\* one child of the 'sbuf' wrapper (sample.rs:126-180)
SampleChild(sample, inner, magic) ==
    LET Ok(x) == [kind |-> "ok", sample |-> x]
        Panic == [kind |-> "panic", sample |-> sample]
    IN
    CASE magic = OPTS ->
           Bind([t \in {TimeFromQtPacket(inner)} |->
           IF t.kind # "ok" THEN Panic
           ELSE Ok([sample EXCEPT !.output_presentation_time_stamp = Some(t.t)])])
      [] magic = STIA ->
           Bind([a \in {TimingInfos(inner, << >>)} |->
           IF a.kind # "ok" THEN Panic
           ELSE Ok([sample EXCEPT !.sample_timing_info_array = Some(a.arr)])])
      [] magic = SDAT ->
           Ok([sample EXCEPT !.sample_data = Some(Drop(inner.buf, 8))])
      [] magic = NSMP ->
           Bind([n \in {RdBytes(inner, 4)} |->
           IF ~n.ok THEN Panic ELSE Ok([sample EXCEPT !.num_samples = n.v])])
      [] magic = SSIZ ->
           Bind([a \in {SampleSizes(inner, << >>)} |->
           IF a.kind # "ok" THEN Panic
           ELSE Ok([sample EXCEPT !.sample_sizes = Some(a.arr)])])
      [] magic = MAGIC_FORMAT_DESCRIPTOR ->
           Bind([fd \in {FormatDescriptorFromQtPacket(inner)} |->
           IF fd.kind # "ok" THEN Panic
           ELSE Ok([sample EXCEPT !.format_description = Some(fd.val)])])
      [] magic = SATT ->
           Bind([a \in {ValueArray(inner, << >>)} |->
           IF a.kind # "ok" THEN Panic
           ELSE Ok([sample EXCEPT !.attachments = Some(a.arr)])])
      [] magic = SARY ->
           Bind([a \in {ValueArray(inner, << >>)} |->
           IF a.kind # "ok" THEN Panic
           ELSE Ok([sample EXCEPT !.sary = Some(a.arr)])])
      [] OTHER -> Ok(sample)

\* a loop that takes a 'free' child for the end of the sample buffer
RECURSIVE SampleChildrenStopAtFree(_, _)
SampleChildrenStopAtFree(sbuf, sample) ==
    IF ~(sbuf.pos < Len(sbuf.buf)) THEN [kind |-> "ok", sample |-> sample]
    ELSE Bind([r \in {ReadQtPacketWithMagic(sbuf)} |->
         IF r.kind # "ok" THEN [kind |-> r.kind, sample |-> sample]
         ELSE IF r.magic = FREE THEN [kind |-> "ok", sample |-> sample]
         ELSE Bind([c \in {SampleChild(sample, r.new, r.magic)} |->
              IF c.kind # "ok" THEN c ELSE SampleChildrenStopAtFree(r.p, c.sample)])])

\* the loop of sample.rs:120-181
RECURSIVE SampleChildren(_, _)
SampleChildren(sbuf, sample) ==
    IF ~(sbuf.pos < Len(sbuf.buf)) THEN [kind |-> "ok", sample |-> sample]
    ELSE Bind([r \in {ReadQtPacketWithMagic(sbuf)} |->
         IF r.kind # "ok" THEN [kind |-> r.kind, sample |-> sample]
         ELSE Bind([c \in {SampleChild(sample, r.new, r.magic)} |->
              IF c.kind # "ok" THEN c ELSE SampleChildren(r.p, c.sample)])])

\* SampleBuffer::from_qt_packet (sample.rs:114-184): the 'sbuf' wrapper is
\* read with an expect(), so a missing or different wrapper panics.
SampleBufferFromQtPacket(pkt, media_type) ==
    Bind([sbuf \in {FromQtPacketWithMagic(pkt, SBUF)} |->
    IF sbuf.kind # "ok" THEN [kind |-> "panic", sample |-> SampleBufferNew(media_type)]
    ELSE SampleChildren(sbuf.new, SampleBufferNew(media_type))])

(***************************************************************************)
(* Host-advertised device info (src/src/qt_device.rs) and the default      *)
(* AudioStreamDescription (src/src/coremedia/audio_desc.rs)                *)
(***************************************************************************)
AUDIO_FORMAT_ID_LPCM == 1819304813

F64_48000 == <<0, 0, 0, 0, 0, 112, 231, 64>>

F64_1200 == <<0, 0, 0, 0, 0, 192, 146, 64>>

F64_1920 == <<0, 0, 0, 0, 0, 0, 158, 64>>

F64_0_073 == <<228, 165, 155, 196, 32, 176, 178, 63>>

F64_0_04 == <<123, 20, 174, 71, 225, 122, 164, 63>>

\* AudioStreamDescription::default() field by field (audio_desc.rs:102-114)
DefaultAsbdFields ==
    F64_48000 \o U32LE(AUDIO_FORMAT_ID_LPCM) \o U32LE(12) \o U32LE(1) \o U32LE(1)
        \o U32LE(4) \o U32LE(2) \o U32LE(16) \o U32LE(0)

\* a default description followed by one copy of the sample rate
DefaultAsbdBufferOneTrail == DefaultAsbdFields \o F64_48000

\* AudioStreamDescription::default().as_buffer(): the nine fields, then the
\* sample rate twice more
DefaultAsbdBuffer ==
    F64_48000 \o U32LE(AUDIO_FORMAT_ID_LPCM) \o U32LE(12) \o U32LE(1) \o U32LE(1)
        \o U32LE(4) \o U32LE(2) \o U32LE(16) \o U32LE(0) \o F64_48000 \o F64_48000

STR_Valeria == <<86, 97, 108, 101, 114, 105, 97>>

STR_HEVCDecoderSupports444 ==
    <<72, 69, 86, 67, 68, 101, 99, 111, 100, 101, 114, 83, 117, 112, 112, 111, 114,
      116, 115, 52, 52, 52>>

STR_DisplaySize == <<68, 105, 115, 112, 108, 97, 121, 83, 105, 122, 101>>

STR_Width == <<87, 105, 100, 116, 104>>

STR_Height == <<72, 101, 105, 103, 104, 116>>

STR_BufferAheadInterval ==
    <<66, 117, 102, 102, 101, 114, 65, 104, 101, 97, 100, 73, 110, 116, 101, 114,
      118, 97, 108>>

STR_deviceUID == <<100, 101, 118, 105, 99, 101, 85, 73, 68>>

STR_ScreenLatency == <<83, 99, 114, 101, 101, 110, 76, 97, 116, 101, 110, 99, 121>>

STR_formats == <<102, 111, 114, 109, 97, 116, 115>>

STR_EDIDAC3Support == <<69, 68, 73, 68, 65, 67, 51, 83, 117, 112, 112, 111, 114, 116>>

STR_deviceName == <<100, 101, 118, 105, 99, 101, 78, 97, 109, 101>>

STR_Error == <<69, 114, 114, 111, 114>>

qt_hpd1_device_info ==
    Object(<< KeyValuePair(StringKey(STR_Valeria), Boolean(TRUE)),
              KeyValuePair(StringKey(STR_HEVCDecoderSupports444), Boolean(TRUE)),
              KeyValuePair(StringKey(STR_DisplaySize),
                  Object(<< KeyValuePair(StringKey(STR_Width), Float(F64_1920)),
                            KeyValuePair(StringKey(STR_Height), Float(F64_1200)) >>)) >>)

qt_hpa1_device_info ==
    Object(<< KeyValuePair(StringKey(STR_BufferAheadInterval), Float(F64_0_073)),
              KeyValuePair(StringKey(STR_deviceUID), StringValue(STR_Valeria)),
              KeyValuePair(StringKey(STR_ScreenLatency), Float(F64_0_04)),
              KeyValuePair(StringKey(STR_formats), Data(DefaultAsbdBuffer)),
              KeyValuePair(StringKey(STR_EDIDAC3Support), UInt32(0)),
              KeyValuePair(StringKey(STR_deviceName), StringValue(STR_Valeria)) >>)

(***************************************************************************)
(* Packets the host builds (src/src/qt_pkt.rs)                             *)
(***************************************************************************)
PACKET_MAGIC_PING == 1885957735

PACKET_MAGIC_SYNC == 1937337955

PACKET_MAGIC_ASYN == 1634957678

PACKET_MAGIC_REPLY == 1919970425

SYNC_PACKET_MAGIC_OG == 1735336224

SYNC_PACKET_MAGIC_STOP == 1937010544

SYNC_PACKET_MAGIC_SKEW == 1936418167

SYNC_PACKET_MAGIC_AFMT == 1634102644

SYNC_PACKET_MAGIC_TIME == 1953066341

SYNC_PACKET_MAGIC_CLOK == 1668050795

SYNC_PACKET_MAGIC_CVRP == 1668706928

SYNC_PACKET_MAGIC_CWPA == 1668771937

ASYN_PACKET_MAGIC_EAT == 1700885537

ASYN_PACKET_MAGIC_FEED == 1717921124

ASYN_PACKET_MAGIC_SPRP == 1936749168

ASYN_PACKET_MAGIC_TJMP == 1953131888

ASYN_PACKET_MAGIC_SRAT == 1936875892

ASYN_PACKET_MAGIC_TBAS == 1952604531

ASYN_PACKET_MAGIC_RELS == 1919249523

HPD1 == 1752196145

HPA1 == 1752195377

HPD0 == 1752196144

HPA0 == 1752195376

NEED == 1852138852

EMPTY_CF_TYPE == 1

\* a reply_packet that loses the request's correlation id
ReplyPacketStaleId(correlation_id) ==
    QTPacketNew \o U32LE(PACKET_MAGIC_REPLY) \o U64LE(0) \o U32LE(0)

\* reply_packet (qt_pkt.rs:292-311): magic, correlation id, four zero bytes
ReplyPacket(correlation_id) ==
    QTPacketNew \o U32LE(PACKET_MAGIC_REPLY) \o correlation_id \o U32LE(0)

\* a reply_packet_with_clock_ref that writes a zero clock reference
ReplyPacketWithClockRefZero(correlation_id, clock_ref) ==
    ReplyPacket(correlation_id) \o U64LE(0)

\* reply_packet_with_clock_ref (qt_pkt.rs:313-325)
ReplyPacketWithClockRef(correlation_id, clock_ref) ==
    ReplyPacket(correlation_id) \o clock_ref

\* a reply that leaves out the 4-byte zero body
ReplyPacketZeroNoBody(correlation_id) == ReplyPacket(correlation_id)

\* QTPacketOG::reply_packet, QTPacketSTOP::reply_packet
ReplyPacketZero(correlation_id) == ReplyPacket(correlation_id) \o U32LE(0)

\* QTPacketTIME::reply_packet
ReplyPacketTime(correlation_id, t) == ReplyPacket(correlation_id) \o TimeAsBytes(t)

\* QTPacketAFMT::reply_packet: the dictionary {"Error": UInt32(0)}
ReplyPacketAfmt(correlation_id) ==
    ReplyPacket(correlation_id)
        \o AsBytes(QTValueAsQtPacket(
               Object(<< KeyValuePair(StringKey(STR_Error), UInt32(0)) >>)))

\* QTPacketSKEW::reply_packet
ReplyPacketSkew(correlation_id, bits) == ReplyPacket(correlation_id) \o bits

\* an as_qt_packet that leaves the type header zero
QTPacketASYNZeroHeader(qt_value, sub_type_mark, type_header) ==
    QTPacketNew \o U32LE(PACKET_MAGIC_ASYN) \o U64LE(0) \o U32LE(sub_type_mark)
        \o (IF qt_value.some THEN AsBytes(QTValueAsQtPacket(qt_value.v)) ELSE << >>)

\* QTPacketASYN::as_qt_packet (qt_pkt.rs:362-398); qt_value is an Option
QTPacketASYN(qt_value, sub_type_mark, type_header) ==
    QTPacketNew \o U32LE(PACKET_MAGIC_ASYN) \o type_header \o U32LE(sub_type_mark)
        \o (IF qt_value.some THEN AsBytes(QTValueAsQtPacket(qt_value.v)) ELSE << >>)

(***************************************************************************)
(* QuickTime::read (src/src/qt.rs:91-150).  bulk is the result of          *)
(* read_bulk: [ok |-> FALSE] for a transport error, else the bytes read.   *)
(***************************************************************************)
ReadResult(kind, pkt, pool) == [kind |-> kind, pkt |-> pkt, pool |-> pool]

\* a split that hands out the packet and leaves its bytes in the pool
SplitHeadKeepsPool(pool2, pkt_len) ==
    Bind([fb \in {FromBytes(Take(pool2, pkt_len))} |->
    IF fb.kind = "ok" THEN ReadResult("pkt", fb.pkt, pool2)
    ELSE ReadResult("panic", NoPkt, pool2)])

\* The split of one packet off the head of the pool (qt.rs:130-147)
SplitHead(pool2, pkt_len) ==
    Bind([fb \in {FromBytes(Take(pool2, pkt_len))} |->
    IF fb.kind = "ok" THEN ReadResult("pkt", fb.pkt, Drop(pool2, pkt_len))
    ELSE ReadResult("panic", NoPkt, pool2)])

Read(pool, bulk) ==
    IF ~bulk.ok THEN ReadResult("err", NoPkt, pool)
    ELSE IF Len(bulk.data) = 0 THEN ReadResult("none", NoPkt, pool)
    ELSE LET pool2 == pool \o bulk.data IN
         IF Len(pool2) < 4 THEN ReadResult("err", NoPkt, pool2)
         ELSE Bind([pkt_len \in {U32At(pool2, 0)} |->
              IF Len(pool2) >= pkt_len THEN SplitHead(pool2, pkt_len)
              ELSE ReadResult("none", NoPkt, pool2)])

(***************************************************************************)
(* The QuickTime session (src/src/qt.rs:16-29) and its packet handlers.    *)
(* A handler is a function of the session, the packet, the instant and the *)
(* number w of bulk writes the transport still accepts; it yields the new  *)
(* session, the packets written, the sample buffer it reached tx.send()    *)
(* with, and whether it returned Ok, returned Err or panicked.             *)
(***************************************************************************)
QuickTimeNew ==
    [clock |-> None(NoClock),
     need_clock_ref |-> None(U64LE(0)),
     local_audio_clock |-> None(NoClock),
     device_audio_clock |-> None(U64LE(0)),
     start_time_device_audio_clock |-> None(NoTime),
     start_time_local_audio_clock |-> None(NoTime),
     last_eat_frame_received_device_audio_clock |-> None(NoTime),
     last_eat_frame_received_local_audio_clock |-> None(NoTime)]

NoSample == SampleBufferNew(0)

HR(q, wrote, item, kind) ==
    [q |-> q, wrote |-> wrote, item |-> item, kind |-> kind, write_failed |-> FALSE]

\* the handler returns the BrokenPipe error of a failed write (qt.rs:160-163)
HWriteErr(q, wrote) ==
    [q |-> q, wrote |-> wrote, item |-> None(NoSample), kind |-> "err",
     write_failed |-> TRUE]

HErr(q) == HR(q, << >>, None(NoSample), "err")

HPanic(q) == HR(q, << >>, None(NoSample), "panic")

\* QuickTime::write (qt.rs:152-165) applied to pkts in turn: the first w
\* writes succeed, the next one fails and the handler returns its error.
RECURSIVE OnWire(_)
OnWire(pkts) ==
    IF pkts = << >> THEN << >> ELSE << AsBytes(Head(pkts)) >> \o OnWire(Tail(pkts))

Writes(q, pkts, w, item) ==
    IF w < Len(pkts) THEN HWriteErr(q, OnWire(Take(pkts, w)))
    ELSE HR(q, OnWire(pkts), item, "ok")

\* qt.rs:190-402
HandleSyncPkt(q, pkt, clock_ref, magic, correlation_id, now, w, checked) ==
    CASE magic = SYNC_PACKET_MAGIC_OG ->
           IF ~RdU32(pkt).ok THEN HErr(q)
           ELSE Writes(q, << ReplyPacketZero(correlation_id) >>, w, None(NoSample))
      [] magic = SYNC_PACKET_MAGIC_CWPA ->
           Bind([d \in {RdBytes(pkt, 8)} |->
           IF ~d.ok THEN HErr(q)
           ELSE Bind([device_clock_ref \in {AddU64(d.v, 1000)} |->
                IF checked /\ device_clock_ref.overflow THEN HPanic(q)
                ELSE Bind([q1 \in {[q EXCEPT
                                  !.local_audio_clock =
                                      Some(Clock(device_clock_ref.bytes, now)),
                                  !.device_audio_clock = Some(d.v)]} |->
                         Bind([display_pkt \in {
                             QTPacketASYN(Some(qt_hpd1_device_info), HPD1,
                                          U64LE(EMPTY_CF_TYPE))} |->
                         Bind([reply_packet \in {
                             ReplyPacketWithClockRef(correlation_id,
                                                     device_clock_ref.bytes)
                                 \o AsBytes(display_pkt)} |->
                         Bind([audio_pkt \in {
                             QTPacketASYN(Some(qt_hpa1_device_info), HPA1, d.v)} |->
                         Writes(q1, << display_pkt, reply_packet, audio_pkt >>, w,
                                None(NoSample))])])])])])])
      [] magic = SYNC_PACKET_MAGIC_CVRP ->
           Bind([d \in {RdBytes(pkt, 8)} |->
           IF ~d.ok THEN HErr(q)
           ELSE Bind([payload \in {QTValueFromQtPacket(d.p)} |->
                IF payload.kind = "panic" THEN HPanic(q)
                ELSE IF payload.kind = "err" THEN HErr(q)
                ELSE Bind([q1 \in {[q EXCEPT !.need_clock_ref = Some(d.v)]} |->
                         Bind([need_pkt \in {QTPacketASYN(None(NoValue), NEED, d.v)} |->
                         Bind([device_clock_ref \in {AddU64(d.v, 1048751)} |->
                     IF w < 1 THEN HWriteErr(q1, << >>)
                     ELSE IF checked /\ device_clock_ref.overflow
                     THEN HR(q1, << AsBytes(need_pkt) >>, None(NoSample), "panic")
                     ELSE Writes(q1,
                                 << need_pkt,
                                    ReplyPacketWithClockRef(correlation_id,
                                                            device_clock_ref.bytes) >>,
                                 w, None(NoSample))])])])])])
      [] magic = SYNC_PACKET_MAGIC_CLOK ->
           Bind([host_time \in {AddU64(clock_ref, 65536)} |->
           IF checked /\ host_time.overflow THEN HPanic(q)
           ELSE Writes([q EXCEPT !.clock = Some(Clock(host_time.bytes, now))],
                       << ReplyPacketWithClockRef(correlation_id, host_time.bytes) >>,
                       w, None(NoSample))])
      [] magic = SYNC_PACKET_MAGIC_TIME ->
           \* the reply packet is built and dropped: nothing is written
           IF ~q.clock.some \/ now < q.clock.v.t THEN HPanic(q)
           ELSE HR(q, << >>, None(NoSample), "ok")
      [] magic = SYNC_PACKET_MAGIC_AFMT ->
           IF ~RdBytes(pkt, ASBD_FIELD_BYTES).ok THEN HErr(q)
           ELSE Writes(q, << ReplyPacketAfmt(correlation_id) >>, w, None(NoSample))
      [] magic = SYNC_PACKET_MAGIC_SKEW ->
           IF \/ ~q.start_time_local_audio_clock.some
              \/ ~q.start_time_device_audio_clock.some
              \/ ~q.last_eat_frame_received_local_audio_clock.some
              \/ ~q.last_eat_frame_received_device_audio_clock.some
           THEN HPanic(q)
           ELSE Bind([skew \in {CalculateSkew(q.start_time_local_audio_clock.v,
                                          q.last_eat_frame_received_local_audio_clock.v,
                                          q.start_time_device_audio_clock.v,
                                          q.last_eat_frame_received_device_audio_clock.v,
                                          checked)} |->
                IF skew.panic THEN HPanic(q)
                ELSE Writes(q, << ReplyPacketSkew(correlation_id, skew.bits) >>, w,
                            None(NoSample))])
      [] magic = SYNC_PACKET_MAGIC_STOP ->
           Writes(q, << ReplyPacketZero(correlation_id) >>, w, None(NoSample))
      [] OTHER -> HR(q, << >>, None(NoSample), "ok")

\* an ASYN handler that asks for the next frame and drops the one it got
HandleAsynPktNeedOnly(q, pkt, magic, now, w) ==
    IF magic = ASYN_PACKET_MAGIC_FEED /\ q.need_clock_ref.some
    THEN Writes(q, << QTPacketASYN(None(NoValue), NEED, q.need_clock_ref.v) >>, w,
                None(NoSample))
    ELSE HR(q, << >>, None(NoSample), "ok")

\* an ASYN handler that takes every packet for the start of a new session
HandleAsynPktReset(q, pkt, magic, now, w) ==
    HR(QuickTimeNew, << >>, None(NoSample), "ok")

\* qt.rs:404-481, up to the tx.send() of the sample buffer
HandleAsynPkt(q, pkt, magic, now, w) ==
    CASE magic = ASYN_PACKET_MAGIC_EAT ->
           Bind([sb \in {SampleBufferFromQtPacket(pkt, MEDIA_TYPE_SOUND)} |->
           IF sb.kind = "panic" THEN HPanic(q)
           ELSE IF sb.kind = "err" THEN HErr(q)
           ELSE LET opts == sb.sample.output_presentation_time_stamp
                    lac == q.local_audio_clock
                    first == ~q.last_eat_frame_received_device_audio_clock.some
                    q1 == IF first
                          THEN [q EXCEPT !.start_time_device_audio_clock = opts]
                          ELSE [q EXCEPT
                                  !.last_eat_frame_received_device_audio_clock = opts]
                IN
                IF ~lac.some \/ now < lac.v.t THEN HPanic(q1)
                ELSE Bind([t \in {Some(GetTime(lac.v, now))} |->
                         LET q2 == IF first
                               THEN [q1 EXCEPT
                                       !.start_time_local_audio_clock = t,
                                       !.last_eat_frame_received_device_audio_clock = opts,
                                       !.last_eat_frame_received_local_audio_clock = t]
                               ELSE [q1 EXCEPT
                                       !.last_eat_frame_received_local_audio_clock = t]
                     IN HR(q2, << >>, Some(sb.sample), "ok")])])
      [] magic = ASYN_PACKET_MAGIC_FEED ->
           Bind([sb \in {SampleBufferFromQtPacket(pkt, MEDIA_TYPE_VIDEO)} |->
           IF sb.kind = "panic" THEN HPanic(q)
           ELSE IF sb.kind = "err" THEN HErr(q)
           ELSE IF ~q.need_clock_ref.some THEN HPanic(q)
           ELSE Writes(q, << QTPacketASYN(None(NoValue), NEED, q.need_clock_ref.v) >>,
                       w, Some(sb.sample))])
      [] OTHER -> HR(q, << >>, None(NoSample), "ok")

\* qt.rs:167-188
HandlePkt(q, pkt, sync, now, w, checked) ==
    Bind([clock_ref \in {RdBytes(pkt, 8)} |->
    IF ~clock_ref.ok THEN HErr(q)
    ELSE Bind([magic \in {RdU32(clock_ref.p)} |->
         IF ~magic.ok THEN HErr(q)
         ELSE IF sync
         THEN Bind([correlation_id \in {RdBytes(magic.p, 8)} |->
              IF ~correlation_id.ok THEN HErr(q)
              ELSE HandleSyncPkt(q, correlation_id.p, clock_ref.v, magic.v,
                                 correlation_id.v, now, w, checked)])
         ELSE HandleAsynPkt(q, magic.p, magic.v, now, w)])])

\* One pass of the body of the loop of run() (qt.rs:515-545), up to a
\* tx.send() if the handler reaches one.  outcome is "continue", "send"
\* (tx.send() of item is next), "return_err" (run() returns Err) or "panic"
\* (an expect() in run() or below it fails).  fault names what went wrong:
\* "read" and "write" are failed bulk transfers, "frame" a packet that
\* cannot be framed, "handler" an Err or a panic of a packet handler.
RunBody(q, pool, bulk, now, w, checked) ==
    LET r == Read(pool, bulk)
        Out(q1, pkt, wrote, item, outcome, fault) ==
            [q |-> q1, pool |-> r.pool, pkt |-> pkt, wrote |-> wrote, item |-> item,
             outcome |-> outcome, fault |-> fault]
    IN
    IF r.kind = "err"
    THEN Out(q, << >>, << >>, None(NoSample), "return_err",
             IF bulk.ok THEN "frame" ELSE "read")
    ELSE IF r.kind = "panic" THEN Out(q, << >>, << >>, None(NoSample), "panic", "frame")
    ELSE IF r.kind = "none" THEN Out(q, << >>, << >>, None(NoSample), "continue", "none")
    ELSE Bind([magic \in {RdU32(r.pkt)} |->
         IF ~magic.ok
         THEN Out(q, r.pkt.buf, << >>, None(NoSample), "return_err", "frame")
         ELSE IF magic.v = PACKET_MAGIC_PING
         THEN IF w < 1 THEN Out(q, r.pkt.buf, << >>, None(NoSample), "panic", "write")
              ELSE Out(q, r.pkt.buf, << AsBytes(r.pkt.buf) >>, None(NoSample),
                       "continue", "none")
         ELSE IF magic.v \in {PACKET_MAGIC_SYNC, PACKET_MAGIC_ASYN}
         THEN Bind([h \in {HandlePkt(q, magic.p, magic.v = PACKET_MAGIC_SYNC, now, w,
                                 checked)} |->
              Out(h.q, r.pkt.buf, h.wrote, h.item,
                     IF h.kind # "ok" THEN "panic"
                     ELSE IF h.item.some THEN "send" ELSE "continue",
                     IF h.write_failed THEN "write"
                     ELSE IF h.kind # "ok" THEN "handler" ELSE "none")])
         ELSE Out(q, r.pkt.buf, << >>, None(NoSample), "continue", "none")])

\* a close_session that turns the display off before the audio
CloseSessionDisplayFirst(q, w) ==
    IF q.device_audio_clock.some
    THEN Writes(q, << QTPacketASYN(None(NoValue), HPD0, U64LE(1)),
                      QTPacketASYN(None(NoValue), HPA0, q.device_audio_clock.v) >>,
                w, None(NoSample))
    ELSE HR(q, << >>, None(NoSample), "ok")

\* a close_session that puts the id of the local audio clock into 'hpa0'
CloseSessionLocalClock(q, w) ==
    IF q.device_audio_clock.some
    THEN Writes(q, << QTPacketASYN(None(NoValue), HPA0, q.local_audio_clock.v.id),
                      QTPacketASYN(None(NoValue), HPD0, U64LE(1)) >>,
                w, None(NoSample))
    ELSE HR(q, << >>, None(NoSample), "ok")

\* QuickTime::close_session (qt.rs:483-510)
CloseSession(q, w) ==
    IF q.device_audio_clock.some
    THEN Writes(q, << QTPacketASYN(None(NoValue), HPA0, q.device_audio_clock.v),
                      QTPacketASYN(None(NoValue), HPD0, U64LE(1)) >>,
                w, None(NoSample))
    ELSE HR(q, << >>, None(NoSample), "ok")

\* A pass of the loop of run(): the packet it read, the packets it wrote
\* and its outcome.
Pass(pkt, wrote, outcome) == [pkt |-> pkt, wrote |-> wrote, outcome |-> outcome]

NoPass == Pass(<< >>, << >>, "continue")

IdleMain ==
    /\ qt = QuickTimeNew
    /\ term = FALSE
    /\ chan = << >>
    /\ pc = "idle"
    /\ pending = None(NoSample)
    /\ run_result = "none"
    /\ exit_fault = "none"
    /\ consumer = "idle"
    /\ host_now = 0
    /\ last_pass = NoPass
    /\ teardown = << >>
    /\ order_log = FALSE
    /\ dispatched = << >>
    /\ received = << >>

(***************************************************************************)
(* The reassembler on its own: the device delivers the concatenation of    *)
(* some well-formed packets as arbitrary non-empty bulk chunks.            *)
(***************************************************************************)
MaxStreamPkts == 2

MaxChunk == 12

\* well-formed length-prefixed packets: [u32 len][payload], len inclusive
FramedPacket(payload) == U32LE(4 + Len(payload)) \o payload

StreamPackets ==
    { FramedPacket(<< >>),
      FramedPacket(<<170>>),
      FramedPacket(<<103, 110, 105, 112, 1>>) }

RECURSIVE Concat(_)
Concat(ss) == IF ss = << >> THEN << >> ELSE Head(ss) \o Concat(Tail(ss))

PacketSeqs ==
    UNION { [1..n -> StreamPackets] : n \in 1..MaxStreamPkts }

\* the harness variables of a specification that does not use them
IdleRead ==
    /\ stream = << >>
    /\ sent = << >>
    /\ delivered = << >>
    /\ rstatus = "ok"
    /\ nreads = 0

IdleUsb ==
    /\ usb_list = << >>
    /\ usb_sn = << >>
    /\ usb_got = [kind |-> "none", err |-> "", idx |-> 0]
    /\ usb_iface = FALSE
    /\ usb_view = FALSE
    /\ usb_stale = FALSE
    /\ usb_pending = "none"
    /\ usb_log = << >>
    /\ init_log = << >>

IdleValue ==
    /\ IdleUsb
    /\ qv_in = NoValue
    /\ qv_bytes = << >>
    /\ qv_out = POk(NoValue, NoPkt)
    /\ qv_pc = "idle"
    /\ wire_in = << >>
    /\ wire_out = POk(NoValue, NoPkt)
    /\ wire_bytes = << >>
    /\ wire_again = POk(NoValue, NoPkt)
    /\ wire_pc = "idle"

InitRead ==
    /\ IdleValue
    /\ IdleMain
    /\ sent \in PacketSeqs
    /\ stream = Concat(sent)
    /\ packet_pool = << >>
    /\ delivered = << >>
    /\ rstatus = "ok"
    /\ nreads = 0

\* One call of read() on the next k bytes of the stream.
ReadChunk(k) ==
    /\ rstatus = "ok"
    /\ k <= Len(stream)
    /\ \E r \in {Read(packet_pool, [ok |-> TRUE, data |-> Take(stream, k)])} :
        /\ packet_pool' = r.pool
        /\ delivered' = IF r.kind = "pkt" THEN Append(delivered, r.pkt.buf) ELSE delivered
        /\ rstatus' = IF r.kind \in {"err", "panic"} THEN r.kind ELSE "ok"
    /\ stream' = Drop(stream, k)
    /\ nreads' = nreads + 1
    /\ UNCHANGED <<sent, valueVars, mainVars>>

NextRead == \E k \in 1..MaxChunk : ReadChunk(k)

SpecRead == InitRead /\ [][NextRead]_vars

\* C1: N well-formed packets delivered as K >= N non-empty chunks come out of
\* successive read() calls as exactly the N packets, in order, with no error
\* and nothing left in the pool.
C1_ReassemblyExact ==
    /\ rstatus = "ok"
    /\ (stream = << >> /\ nreads >= Len(sent))
          => (delivered = sent /\ packet_pool = << >>)

(***************************************************************************)
(* The QT-value codec on its own: serialize a value, then parse the bytes. *)
(***************************************************************************)
MaxDictLen == 2

U64_ONE == <<1, 0, 0, 0, 0, 0, 0, 0>>

ValueAtoms ==
    { StringKey(<< >>), StringKey(<<97>>), StringValue(<<97>>),
      Boolean(TRUE), Boolean(FALSE), Data(<< >>), Data(<<1, 2>>),
      Float(F64_1920), UInt32(0), UInt32(7), UInt64(U64_ONE),
      IdxKey(49), IdxKey(105) }

ValueKeys == { StringKey(<<97>>), IdxKey(49) }

ValuePairs == { KeyValuePair(k, v) : k \in ValueKeys, v \in ValueAtoms }

DictItemChoices ==
    { KeyValuePair(StringKey(<<97>>), Boolean(TRUE)),
      KeyValuePair(IdxKey(105), Data(<<1, 2>>)),
      KeyValuePair(StringKey(<<97>>), StringValue(<<97>>)),
      UInt32(7), Data(<< >>) }

ValueObjects ==
    { Object(arr) : arr \in UNION { [1..n -> DictItemChoices] : n \in 0..MaxDictLen } }

ValueNested ==
    { KeyValuePair(IdxKey(49), o) : o \in ValueObjects }
        \cup { Object(<<o>>) : o \in ValueObjects }
        \cup { Object(<<KeyValuePair(StringKey(<<97>>), o)>>) : o \in ValueObjects }

Values == ValueAtoms \cup ValuePairs \cup ValueObjects \cup ValueNested

InitValue ==
    /\ IdleUsb
    /\ IdleRead
    /\ IdleMain
    /\ packet_pool = << >>
    /\ qv_in \in Values
    /\ qv_bytes = << >>
    /\ qv_out = POk(NoValue, NoPkt)
    /\ qv_pc = "new"
    /\ wire_in = << >>
    /\ wire_out = POk(NoValue, NoPkt)
    /\ wire_bytes = << >>
    /\ wire_again = POk(NoValue, NoPkt)
    /\ wire_pc = "idle"

\* v.as_qt_packet() followed by as_bytes()
Serialize ==
    /\ qv_pc = "new"
    /\ qv_bytes' = AsBytes(QTValueAsQtPacket(qv_in))
    /\ qv_pc' = "serialized"
    /\ UNCHANGED <<qv_in, qv_out, wireVars, usbVars, packet_pool, readVars, mainVars>>

\* QTValue::from_qt_packet on a packet whose cursor is at the node
Parse ==
    /\ qv_pc = "serialized"
    /\ qv_out' = QTValueFromQtPacket(Pkt(QTPacketNew \o qv_bytes, 4))
    /\ qv_pc' = "parsed"
    /\ UNCHANGED <<qv_in, qv_bytes, wireVars, usbVars, packet_pool, readVars, mainVars>>

NextValue == Serialize \/ Parse

SpecValue == InitValue /\ [][NextValue]_vars

ChanCap == 1

\* instants of the host clock
MaxNow == 1

\* bulk writes of one handler: cwpa makes three
MaxWrites == 3

\* 'eat!' and 'feed' packets in a behaviour that keeps the channel record
MaxDispatched == 2

\* Result<SampleBuffer, io::Error> as sent on the channel
OkItem(sample) == [ok |-> TRUE, sample |-> sample]

ErrItem == [ok |-> FALSE, sample |-> NoSample]

\* exit events
EvTerminalError == [ev |-> "terminal_error", bytes |-> << >>]

EvWrite(bytes) == [ev |-> "write", bytes |-> bytes]

EvSetQtEnabledFalse == [ev |-> "set_qt_enabled(false)", bytes |-> << >>]

RECURSIVE EvWrites(_)
EvWrites(wrote) ==
    IF wrote = << >> THEN << >> ELSE << EvWrite(Head(wrote)) >> \o EvWrites(Tail(wrote))

\* ---- what the device sends ----
CORR_A == <<17, 34, 51, 68, 85, 102, 119, 136>>

CORR_B == <<1, 0, 0, 0, 0, 0, 0, 0>>

CLOCK_REF_A == <<64, 226, 1, 0, 0, 0, 0, 0>>

CLOCK_REF_B == <<7, 0, 0, 0, 2, 0, 0, 0>>

CLOCK_REF_MAX == <<255, 255, 255, 255, 255, 255, 255, 255>>

\* a length-and-magic node: [u32 len][u32 magic][body]
Node(magic, body) == U32LE(8 + Len(body)) \o U32LE(magic) \o body

DevPing(body) == FramedPacket(U32LE(PACKET_MAGIC_PING) \o body)

DevSync(clock_ref, magic, correlation_id, body) ==
    FramedPacket(U32LE(PACKET_MAGIC_SYNC) \o clock_ref \o U32LE(magic)
                     \o correlation_id \o body)

DevAsyn(clock_ref, magic, body) ==
    FramedPacket(U32LE(PACKET_MAGIC_ASYN) \o clock_ref \o U32LE(magic) \o body)

OptsTime == Time(U64LE(3), U32LE(48000), U32LE(1), U64LE(0))

DevPings ==
    { DevPing(<<0, 0, 0, 0, 1, 0, 0, 0>>),
      DevPing(<<222, 173, 190, 239, 202, 254, 186, 190, 9, 8, 7>>) }

DevSyncs ==
    { DevSync(CLOCK_REF_A, SYNC_PACKET_MAGIC_OG, CORR_A, U32LE(1)),
      DevSync(CLOCK_REF_A, SYNC_PACKET_MAGIC_CWPA, CORR_B, CLOCK_REF_B),
      DevSync(CLOCK_REF_A, SYNC_PACKET_MAGIC_CVRP, CORR_B,
              CLOCK_REF_B \o AsBytes(QTValueAsQtPacket(
                  Object(<< KeyValuePair(StringKey(STR_Width), UInt32(7)) >>)))),
      DevSync(CLOCK_REF_B, SYNC_PACKET_MAGIC_CVRP, CORR_A,
              CLOCK_REF_A \o AsBytes(QTValueAsQtPacket(
                  Object(<< KeyValuePair(StringKey(STR_Width), UInt32(7)) >>)))),
      DevSync(CLOCK_REF_A, SYNC_PACKET_MAGIC_CLOK, CORR_A, << >>),
      DevSync(CLOCK_REF_MAX, SYNC_PACKET_MAGIC_CLOK, CORR_B, << >>),
      DevSync(CLOCK_REF_A, SYNC_PACKET_MAGIC_TIME, CORR_A, << >>),
      DevSync(CLOCK_REF_A, SYNC_PACKET_MAGIC_AFMT, CORR_B, Take(DefaultAsbdBuffer, 40)),
      DevSync(CLOCK_REF_A, SYNC_PACKET_MAGIC_SKEW, CORR_B, << >>),
      DevSync(CLOCK_REF_A, SYNC_PACKET_MAGIC_STOP, CORR_A, << >>) }

DevAsyns ==
    { DevAsyn(CLOCK_REF_B, ASYN_PACKET_MAGIC_EAT,
              Node(SBUF, Node(OPTS, TimeAsBytes(OptsTime)) \o Node(SDAT, <<1, 2>>))),
      DevAsyn(CLOCK_REF_B, ASYN_PACKET_MAGIC_FEED,
              Node(SBUF, Node(SDAT, <<0, 0, 0, 1, 101>>))),
      DevAsyn(CLOCK_REF_B, ASYN_PACKET_MAGIC_FEED, Node(SBUF, Node(SDAT, <<0, 0>>))),
      DevAsyn(CLOCK_REF_B, ASYN_PACKET_MAGIC_SPRP, << >>) }

DevOthers == { FramedPacket(U32LE(PACKET_MAGIC_REPLY)) }

DevicePackets == DevPings \cup DevSyncs \cup DevAsyns \cup DevOthers

\* one ping that arrives in two bulk transfers
SplitPing == DevPing(<<5, 6, 7, 8, 9, 10, 11, 12>>)

SplitAt == 8

Bulk(data) == [ok |-> TRUE, data |-> data]

BulkError == [ok |-> FALSE, data |-> << >>]

\* The results read_bulk can give: an error, nothing, or the next bytes of
\* the device's stream, which continues the packet the pool holds part of.
DeviceSends(pool) ==
    {BulkError, Bulk(<< >>)}
        \cup (IF pool = << >>
              THEN { Bulk(d) : d \in DevicePackets } \cup { Bulk(Take(SplitPing, SplitAt)) }
              ELSE { Bulk(Drop(SplitPing, SplitAt)) })

Init ==
    /\ IdleRead
    /\ IdleValue
    /\ packet_pool = << >>
    /\ qt = QuickTimeNew
    /\ term = FALSE
    /\ chan = << >>
    /\ pc = "run"
    /\ pending = None(NoSample)
    /\ run_result = "none"
    /\ exit_fault = "none"
    /\ consumer = "recv"
    /\ host_now = 0
    /\ last_pass = NoPass
    /\ teardown = << >>
    /\ order_log = FALSE
    /\ dispatched = << >>
    /\ received = << >>

\* run() has handed pkt to handle_asyn_pkt as an 'eat!' or a 'feed'
\* (qt.rs:167-188, 411, 446)
Dispatched(pkt) ==
    /\ Len(pkt) >= 20
    /\ U32At(pkt, 4) = PACKET_MAGIC_ASYN
    /\ U32At(pkt, 16) \in {ASYN_PACKET_MAGIC_EAT, ASYN_PACKET_MAGIC_FEED}

\* One pass of the loop of run(): the loop test, read(), the dispatch and
\* the handler, up to the handler's tx.send() if it reaches one.  checked
\* says whether an integer overflow in this pass panics (a build with
\* overflow checks) or wraps; sig says whether SIGINT sets the flag while
\* the pass is in progress (after the loop test, main.rs:88-89).
LoopPass(bulk, w, checked, sig) ==
    /\ pc = "run"
    /\ ~term
    /\ Len(dispatched) < MaxDispatched
    /\ \E b \in {RunBody(qt, packet_pool, bulk, host_now, w, checked)} :
        /\ qt' = b.q
        /\ packet_pool' = b.pool
        /\ pending' = b.item
        /\ last_pass' = Pass(b.pkt, b.wrote, b.outcome)
        /\ pc' = CASE b.outcome = "continue" -> "run"
                   [] b.outcome = "send" -> "send"
                   [] OTHER -> "drop"
        /\ run_result' = CASE b.outcome = "return_err" -> "err"
                           [] b.outcome = "panic" -> "panic"
                           [] OTHER -> run_result
        /\ exit_fault' = b.fault
        /\ dispatched' = IF order_log /\ Dispatched(b.pkt)
                          THEN Append(dispatched, b.pkt) ELSE dispatched
    /\ term' = sig
    /\ UNCHANGED <<chan, consumer, host_now, teardown, readVars, valueVars,
                   order_log, received>>

Iterate(bulk, w, checked) == LoopPass(bulk, w, checked, FALSE)

\* a send that never waits for room in the channel
SendUnbounded ==
    /\ pc = "send"
    /\ chan' = Append(chan, OkItem(pending.v))
    /\ pc' = "run"
    /\ pending' = None(NoSample)
    /\ UNCHANGED <<qt, packet_pool, term, consumer, host_now, last_pass, teardown,
                   run_result, exit_fault, readVars, valueVars, orderVars>>

\* The tx.send(Ok(sample_buffer)) of 'eat!' and 'feed' (qt.rs:441-444,
\* 468-471): it blocks while the channel is full, and fails once the
\* receiver is dropped; the Err it then returns meets expect("asyn").
Send ==
    /\ pc = "send"
    /\ IF consumer \in {"panicked"}
       THEN /\ pc' = "drop"
            /\ run_result' = "panic"
            /\ exit_fault' = "channel"
            /\ chan' = chan
       ELSE /\ Len(chan) < ChanCap
            /\ chan' = Append(chan, OkItem(pending.v))
            /\ pc' = "run"
            /\ UNCHANGED <<run_result, exit_fault>>
    /\ pending' = None(NoSample)
    /\ UNCHANGED <<qt, packet_pool, term, consumer, host_now, last_pass, teardown,
                   readVars, valueVars, orderVars>>

\* The loop test finds term set; run() sends the terminal error
\* (qt.rs:548-550) and returns Ok.  A dropped receiver fails the expect().
Close ==
    /\ pc = "run"
    /\ term
    /\ IF consumer \in {"panicked"}
       THEN /\ run_result' = "panic"
            /\ exit_fault' = "channel"
            /\ UNCHANGED <<chan, teardown>>
       ELSE /\ Len(chan) < ChanCap
            /\ chan' = Append(chan, ErrItem)
            /\ teardown' = Append(teardown, EvTerminalError)
            /\ run_result' = "ok"
            /\ exit_fault' = "cancel"
    /\ pc' = "drop"
    /\ UNCHANGED <<qt, packet_pool, term, pending, consumer, host_now, last_pass,
                   readVars, valueVars, orderVars>>

\* Drop for QuickTime (qt.rs:556-576), which runs when run() has returned
\* or is unwinding: close_session().expect(), then set_qt_enabled(false) if
\* is_qt_enabled() answers Ok(true).  A panic in drop while the thread is
\* already unwinding aborts the process.  The sender is dropped with qt.
DropQT(w, enabled) ==
    /\ pc = "drop"
    /\ \E c \in {CloseSession(qt, w)} :
        IF c.kind # "ok"
        THEN /\ teardown' = teardown \o EvWrites(c.wrote)
             /\ run_result' = IF run_result = "panic" THEN "abort" ELSE "panic"
             /\ consumer' = IF run_result = "panic" THEN "aborted" ELSE consumer
        ELSE /\ teardown' = teardown \o EvWrites(c.wrote)
                               \o (IF enabled = "yes" THEN << EvSetQtEnabledFalse >>
                                   ELSE << >>)
             /\ UNCHANGED <<run_result, consumer>>
    /\ pc' = "done"
    /\ UNCHANGED <<qt, packet_pool, term, chan, pending, exit_fault, host_now, last_pass,
                   readVars, valueVars, orderVars>>

\* SIGINT sets the flag (main.rs:88-89)
Signal ==
    /\ ~term
    /\ pc \in {"run", "send"}
    /\ term' = TRUE
    /\ UNCHANGED <<qt, packet_pool, chan, pc, pending, run_result, exit_fault, consumer,
                   host_now, last_pass, teardown, readVars, valueVars, orderVars>>

\* the host clock advances; only the clocks of the session read it
Tick ==
    /\ host_now < MaxNow
    /\ pc = "run"
    /\ qt.clock.some \/ qt.local_audio_clock.some
    /\ host_now' = host_now + 1
    /\ UNCHANGED <<qt, packet_pool, term, chan, pc, pending, run_result, exit_fault,
                   consumer, last_pass, teardown, readVars, valueVars, orderVars>>

\* main.rs:121-127: the slicing of sample_data by its 4-byte big-endian
\* lengths indexes unchecked
RECURSIVE SdatPanics(_)
SdatPanics(cur) ==
    IF Len(cur) = 0 THEN FALSE
    ELSE IF Len(cur) < 4 THEN TRUE
    ELSE LET slice_len == 16777216 * cur[1] + 65536 * cur[2] + 256 * cur[3] + cur[4] IN
         IF slice_len + 4 > Len(cur) THEN TRUE
         ELSE SdatPanics(Drop(cur, slice_len + 4))

\* main.rs:110-131: what main does with a sample buffer panics on a
\* format description without sps and pps, and on a malformed sample_data
ConsumerPanics(sample) ==
    /\ sample.media_type = MEDIA_TYPE_VIDEO
    /\ \/ /\ sample.format_description.some
          /\ LET avc1 == sample.format_description.v.fd.avc1 IN
                ~avc1.some \/ ~avc1.v.sps.some \/ ~avc1.v.pps.some
       \/ /\ sample.sample_data.some
          /\ SdatPanics(sample.sample_data.v)

\* rx.recv() returns an item (main.rs:103-131)
ConsumerRecv ==
    /\ consumer = "recv"
    /\ chan # << >>
    /\ chan' = Tail(chan)
    /\ consumer' = IF ~Head(chan).ok THEN "joining"
                   ELSE IF ConsumerPanics(Head(chan).sample) THEN "panicked"
                   ELSE "recv"
    /\ received' = IF order_log /\ Head(chan).ok
                    THEN Append(received, Head(chan).sample) ELSE received
    /\ UNCHANGED <<qt, packet_pool, term, pc, pending, run_result, exit_fault, host_now, last_pass,
                   teardown, readVars, valueVars, order_log, dispatched>>

\* rx.recv() on an empty channel whose sender is gone fails the expect()
ConsumerDisconnected ==
    /\ consumer = "recv"
    /\ chan = << >>
    /\ pc = "done"
    /\ consumer' = "panicked"
    /\ UNCHANGED <<qt, packet_pool, term, chan, pc, pending, run_result, exit_fault, host_now,
                   last_pass, teardown, readVars, valueVars, orderVars>>

\* t.join().expect("loop thread term") after the terminal error (main.rs:136-138)
Join ==
    /\ consumer = "joining"
    /\ pc = "done"
    /\ consumer' = IF run_result = "panic" THEN "panicked" ELSE "done"
    /\ UNCHANGED <<qt, packet_pool, term, chan, pc, pending, run_result, exit_fault, host_now,
                   last_pass, teardown, readVars, valueVars, orderVars>>

\* main has panicked: the process exits and takes the protocol thread with it
MainExit ==
    /\ consumer = "panicked"
    /\ pc # "done"
    /\ pc' = "done"
    /\ run_result' = "killed"
    /\ UNCHANGED <<qt, packet_pool, term, chan, pending, exit_fault, consumer, host_now, last_pass,
                   teardown, readVars, valueVars, orderVars>>

Next ==
    \/ \E bulk \in DeviceSends(packet_pool), w \in 0..MaxWrites, checked \in BOOLEAN :
          Iterate(bulk, w, checked)
    \/ Send
    \/ Close
    \/ \E w \in 0..2, enabled \in {"yes", "no", "error"} : DropQT(w, enabled)
    \/ Signal
    \/ Tick
    \/ ConsumerRecv
    \/ ConsumerDisconnected
    \/ Join
    \/ MainExit

Spec == Init /\ [][Next]_vars

(***************************************************************************)
(* Properties of the protocol loop                                         *)
(***************************************************************************)
\* the outer magic of a received packet, 0 if it has none
OuterMagic(pkt) == IF Len(pkt) >= 8 THEN U32At(pkt, 4) ELSE 0

\* the SYNC or ASYN sub-type of a received packet, 0 if it has none
SubType(pkt) == IF Len(pkt) >= 20 THEN U32At(pkt, 16) ELSE 0

IsPing(pkt) == OuterMagic(pkt) = PACKET_MAGIC_PING

IsSync(pkt, magic) ==
    OuterMagic(pkt) = PACKET_MAGIC_SYNC /\ Len(pkt) >= 28 /\ SubType(pkt) = magic

IsAsyn(pkt, magic) == OuterMagic(pkt) = PACKET_MAGIC_ASYN /\ SubType(pkt) = magic

\* the correlation id of a received SYNC packet
CorrelationId(pkt) == SubSeq(pkt, 21, 28)

\* a step of the loop that handled a packet: only Iterate changes last_pass
Handled(pkt) == last_pass' # last_pass /\ last_pass'.pkt = pkt

\* the names of the exit events, in order
EvName(e) ==
    IF e.ev # "write" THEN e.ev
    ELSE IF SubType(e.bytes) = HPA0 THEN "hpa0"
    ELSE IF SubType(e.bytes) = HPD0 THEN "hpd0"
    ELSE "other"

ExitOrder == [i \in 1..Len(teardown) |-> EvName(teardown[i])]

\* C2: every 'feed' that carries a valid sample buffer, in every protocol
\* state (before any 'cvrp' too) and with the transport accepting the write,
\* has exactly one ASYN 'need' written, whose header is the recorded
\* need_clock_ref, and hands exactly one 'vide' SampleBuffer to the channel.
C2_FeedNeedAndBuffer ==
    [][\A pkt \in DevAsyns :
          ( /\ Handled(pkt)
            /\ IsAsyn(pkt, ASYN_PACKET_MAGIC_FEED)
            /\ SampleBufferFromQtPacket(Pkt(pkt, 20), MEDIA_TYPE_VIDEO).kind = "ok"
            /\ exit_fault' # "write" )
          => /\ Len(last_pass'.wrote) = 1
             /\ IsAsyn(last_pass'.wrote[1], NEED)
             /\ qt.need_clock_ref.some
                  => SubSeq(last_pass'.wrote[1], 9, 16) = qt.need_clock_ref.v
             /\ pending'.some
             /\ pending'.v.media_type = MEDIA_TYPE_VIDEO]_vars

\* C3: when a bulk read or a bulk write failed during run(), the protocol
\* thread has sent one terminal error item on the channel by the time it
\* ends.
C3_TransportErrorTerminalItem ==
    (pc = "done" /\ exit_fault \in {"read", "write"} /\ run_result # "killed")
        => \E i \in 1..Len(teardown) : teardown[i] = EvTerminalError

C5_ClosedChannelCleanExit ==
    (pc = "done" /\ exit_fault = "channel" /\ run_result # "killed")
        => run_result = "err"

\* C6: a SYNC 'time' received after a 'clok', with the transport accepting
\* writes, has exactly one reply written: the correlation id of the request
\* and the 24 bytes of the host clock's current Time.
C6_TimeReplyWritten ==
    [][\A pkt \in DevSyncs :
          ( /\ Handled(pkt)
            /\ IsSync(pkt, SYNC_PACKET_MAGIC_TIME)
            /\ qt.clock.some
            /\ exit_fault' # "write" )
          => last_pass'.wrote =
                 << AsBytes(ReplyPacketTime(CorrelationId(pkt),
                                            GetTime(qt.clock.v, host_now))) >>]_vars

RepliedTypes ==
    { SYNC_PACKET_MAGIC_OG, SYNC_PACKET_MAGIC_CWPA, SYNC_PACKET_MAGIC_CVRP,
      SYNC_PACKET_MAGIC_CLOK, SYNC_PACKET_MAGIC_AFMT, SYNC_PACKET_MAGIC_SKEW,
      SYNC_PACKET_MAGIC_STOP }

\* the written packets of the latest pass that are replies
Replies == { i \in 1..Len(last_pass.wrote) : OuterMagic(last_pass.wrote[i]) = PACKET_MAGIC_REPLY }

\* C7: every reply written for a SYNC go!, cwpa, cvrp, clok, afmt, skew or
\* stop is its length, the magic 'rply', the 8-byte correlation id of that
\* request, four zero bytes and a body; a request that is handled to the end
\* gets exactly one.
C7_ReplyLayout ==
    \A magic \in RepliedTypes :
        IsSync(last_pass.pkt, magic) =>
            /\ \A i \in Replies :
                  LET r == last_pass.wrote[i] IN
                  /\ Len(r) >= 20
                  /\ U32At(r, 0) = Len(r)
                  /\ SubSeq(r, 9, 16) = CorrelationId(last_pass.pkt)
                  /\ SubSeq(r, 17, 20) = ZERO32
            /\ last_pass.outcome = "continue" => Cardinality(Replies) = 1

\* a 'cwpa' answered in full: display info, the reply, audio info
C7_Witness ==
    /\ IsSync(last_pass.pkt, SYNC_PACKET_MAGIC_CWPA)
    /\ CorrelationId(last_pass.pkt) = CORR_B
    /\ Len(last_pass.wrote) = 3
    /\ Replies = {2}

\* C8: a received ping, whatever its body, is written back once, byte for
\* byte, when the transport accepts the write; it puts nothing on the channel
\* and changes nothing of the session.
C8_PingEcho ==
    [][\A pkt \in DevPings \cup {SplitPing} :
          Handled(pkt) =>
             /\ qt' = qt
             /\ chan' = chan
             /\ ~pending'.some
             /\ exit_fault' # "write" => (last_pass'.wrote = << pkt >> /\ pc' = "run")
             /\ exit_fault' = "write" => last_pass'.wrote = << >>]_vars

\* the ping that arrived in two bulk transfers came back whole, in a
\* session that has a clock
C8_Witness ==
    /\ last_pass.pkt = SplitPing
    /\ last_pass.wrote = << SplitPing >>
    /\ pc = "run"
    /\ qt.clock.some

SelfSized(b) == Len(b) >= 4 /\ U32At(b, 0) = Len(b)

\* b is zero or more nodes laid end to end, each starting with its own
\* length, the children of every 'keyv' and 'dict' node likewise
RECURSIVE NodesFramed(_)
NodesFramed(b) ==
    \/ b = << >>
    \/ /\ Len(b) >= 8
       /\ U32At(b, 0) >= 8
       /\ U32At(b, 0) <= Len(b)
       /\ U32At(b, 4) \in {MAGIC_KEY_VALUE_PAIR, MAGIC_KEY_DICTIONARY}
             => NodesFramed(SubSeq(b, 9, U32At(b, 0)))
       /\ NodesFramed(Drop(b, U32At(b, 0)))

\* an ASYN packet the host wrote: its own length, and its payload nodes
AsynFramed(b) == SelfSized(b) /\ Len(b) >= 20 /\ NodesFramed(Drop(b, 20))

\* a packet written while answering request: a ping echo, an ASYN packet,
\* or a reply, whose body holds a dictionary for 'afmt' and the display
\* packet for 'cwpa'
WrittenFramed(request, b) ==
    /\ SelfSized(b)
    /\ OuterMagic(b) = PACKET_MAGIC_ASYN => AsynFramed(b)
    /\ (OuterMagic(b) = PACKET_MAGIC_REPLY /\ IsSync(request, SYNC_PACKET_MAGIC_AFMT))
          => NodesFramed(Drop(b, 20))
    /\ (OuterMagic(b) = PACKET_MAGIC_REPLY /\ IsSync(request, SYNC_PACKET_MAGIC_CWPA))
          => AsynFramed(Drop(b, 28))

\* C11: every packet the host writes (ping echo, reply, ASYN hpd1, hpa1,
\* need, hpa0, hpd0) and every node nested in it starts with a little-endian
\* u32 equal to its own total length, the length field included.
C11_WrittenLengths ==
    /\ \A i \in 1..Len(last_pass.wrote) : WrittenFramed(last_pass.pkt, last_pass.wrote[i])
    /\ \A i \in 1..Len(teardown) :
          teardown[i].ev = "write" => AsynFramed(teardown[i].bytes)

\* the session closed after a 'cwpa': both close packets were written
C11_Witness ==
    /\ Len(teardown) >= 2
    /\ teardown[Len(teardown)].ev = "write"
    /\ SubType(teardown[Len(teardown)].bytes) = HPD0

(***************************************************************************)
(* The channel between the protocol thread and the consumer                *)
(***************************************************************************)
\* the protocol thread is inside tx.send() and the channel is full
SendBlocked == pc = "send" /\ pending.some /\ Len(chan) = ChanCap

\* C12: the channel never holds more than its capacity (256 in main.rs,
\* ChanCap here), and while it is full and the protocol thread has a sample
\* buffer to enqueue, the protocol thread reads nothing and writes nothing
\* until the consumer has removed an item.
C12_Backpressure ==
    [][/\ Len(chan') <= ChanCap
       /\ (SendBlocked /\ Len(chan') >= Len(chan))
             => /\ pc' = "send"
                /\ pending' = pending
                /\ packet_pool' = packet_pool
                /\ last_pass' = last_pass
                /\ teardown' = teardown]_vars

\* the protocol thread waits with a video buffer in hand behind a full channel
C12_Witness ==
    /\ SendBlocked
    /\ pending.v.media_type = MEDIA_TYPE_VIDEO

(***************************************************************************)
(* The protocol loop with the record of the channel kept                   *)
(***************************************************************************)
InitOrder ==
    /\ IdleRead
    /\ IdleValue
    /\ packet_pool = << >>
    /\ qt = QuickTimeNew
    /\ term = FALSE
    /\ chan = << >>
    /\ pc = "run"
    /\ pending = None(NoSample)
    /\ run_result = "none"
    /\ exit_fault = "none"
    /\ consumer = "recv"
    /\ host_now = 0
    /\ last_pass = NoPass
    /\ teardown = << >>
    /\ order_log = TRUE
    /\ dispatched = << >>
    /\ received = << >>

SpecOrder == InitOrder /\ [][Next]_vars

\* the sample buffer a dispatched 'eat!' or 'feed' packet describes
BufferOf(pkt) ==
    SampleBufferFromQtPacket(Pkt(pkt, 20),
                             IF U32At(pkt, 16) = ASYN_PACKET_MAGIC_EAT
                             THEN MEDIA_TYPE_SOUND ELSE MEDIA_TYPE_VIDEO).sample

\* both threads have come to their end
SessionOver == pc = "done" /\ consumer # "recv"

\* C13: in every interleaving of the protocol thread and the consumer, the
\* sample buffers the consumer receives are those of the 'eat!' and 'feed'
\* packets the protocol thread dispatched, in the same order, audio and
\* video interleaved as received, none duplicated, and none dropped once
\* both threads have finished.
C13_ChannelOrder ==
    /\ Len(received) <= Len(dispatched)
    /\ \A i \in 1..Len(received) : received[i] = BufferOf(dispatched[i])
    /\ SessionOver => Len(received) = Len(dispatched)

(***************************************************************************)
(* The SYNC handlers that deal in clock references                         *)
(***************************************************************************)
\* the bytes that follow the correlation id of a received SYNC packet
SyncBody(pkt) == Drop(pkt, 28)

\* the value a written ASYN packet carries, as bytes
AsynPayload(b) == Drop(b, 20)

\* the 8-byte header of a written ASYN packet
AsynHeader(b) == SubSeq(b, 9, 16)

\* the 8 bytes that follow the four zero bytes of a written reply
ReplyClockRef(b) == SubSeq(b, 21, 28)

C16_ClokReply ==
    [][\A pkt \in DevSyncs :
          ( /\ Handled(pkt)
            /\ IsSync(pkt, SYNC_PACKET_MAGIC_CLOK)
            /\ exit_fault' # "write" )
          => LET c == SubSeq(pkt, 9, 16)
                 wrote == last_pass'.wrote
             IN
             /\ Len(wrote) = 1
             /\ OuterMagic(wrote[1]) = PACKET_MAGIC_REPLY
             /\ ReplyClockRef(wrote[1]) = AddU64(c, 65536).bytes
             /\ qt'.clock.some
             /\ qt'.clock.v.id = AddU64(c, 65536).bytes]_vars


(***************************************************************************)
(* The wire format on its own: a format descriptor as the device sends it  *)
(* is parsed, serialized again and parsed again; a value node as the       *)
(* device sends it is parsed.                                              *)
(***************************************************************************)
MaxExtensions == 2

\* an avcC record with one SPS and one PPS, each [u16 big-endian length][bytes]
AvccOne(sps, pps) ==
    <<1, 100, 0, 31, 255, 225, Len(sps) \div 256, Len(sps) % 256>> \o sps
        \o <<1, Len(pps) \div 256, Len(pps) % 256>> \o pps

SpsChoices == { <<103, 100, 0, 31, 172, 86, 192>>, <<103>> }

PpsChoices == { <<104, 238, 60, 176>>, << >> }

\* the extension that carries the AVCC bytes: IdxKey(49) -> { IdxKey(105) -> Data }
ExtAvcc(avcc) ==
    KeyValuePair(IdxKey(49), Object(<< KeyValuePair(IdxKey(105), Data(avcc)) >>))

CompleteExts == { ExtAvcc(AvccOne(sps, pps)) : sps \in SpsChoices, pps \in PpsChoices }

\* extensions whose AVCC chain stops short, one for each way of stopping
OtherKeyExt == KeyValuePair(IdxKey(50), UInt32(7))

NotDictExt == KeyValuePair(IdxKey(49), UInt32(7))

EmptyDictExt == KeyValuePair(IdxKey(49), Object(<< >>))

FirstNotPairExt == KeyValuePair(IdxKey(49), Object(<< UInt32(7) >>))

FirstKeyNotIdxExt ==
    KeyValuePair(IdxKey(49), Object(<< KeyValuePair(StringKey(<<97>>), Data(<<1, 2>>)) >>))

FirstKeyNot105Ext ==
    KeyValuePair(IdxKey(49), Object(<< KeyValuePair(IdxKey(104), Data(<<1, 2>>)) >>))

ValueNotDataExt ==
    KeyValuePair(IdxKey(49), Object(<< KeyValuePair(IdxKey(105), UInt32(7)) >>))

IncompleteExts ==
    { OtherKeyExt, NotDictExt, EmptyDictExt, FirstNotPairExt, FirstKeyNotIdxExt,
      FirstKeyNot105Ext, ValueNotDataExt }

\* an AVCC record cut off inside its SPS
CutAvccExt == ExtAvcc(Take(AvccOne(<<103, 100, 0, 31, 172, 86, 192>>, << >>), 10))

ExtLists(S) == UNION { [1..n -> S] : n \in 0..MaxExtensions }

\* a video descriptor on the wire: 'mdia', 'vdim', 'codc' and 'extn' nodes,
\* one after the other (format_desc.rs:139-207)
VideoWire(width, height, codec, extensions) ==
    Node(MAGIC_MEDIA_TYPE, U32LE(MEDIA_TYPE_VIDEO))
        \o Node(MAGIC_VIDEO_DIMENSION, width \o height)
        \o Node(MAGIC_CODEC, codec)
        \o Node(MAGIC_EXTENSION, WriteAll(extensions))

\* an audio descriptor on the wire: 'mdia' and 'asbd' nodes
AudioWire(asbd) ==
    Node(MAGIC_MEDIA_TYPE, U32LE(MEDIA_TYPE_SOUND))
        \o Node(MAGIC_AUDIO_STREAM_DESCRIPTION, asbd)

\* 1920 x 1200, 'avc1'
WireVideo(extensions) ==
    VideoWire(U32LE(1920), U32LE(1200), <<49, 99, 118, 97>>, extensions)

DescWires ==
    { WireVideo(x) : x \in ExtLists(CompleteExts \cup IncompleteExts \cup {CutAvccExt}) }
        \cup { AudioWire(Take(DefaultAsbdBuffer, n)) : n \in {39, 40, 56} }
        \cup { Node(MAGIC_MEDIA_TYPE, U32LE(MAGIC_CODEC)) }

\* a node that declares k bytes more than it has
Overlong(v, k) ==
    U32LE(Len(QTValueAsQtPacket(v)) + k) \o Drop(QTValueAsQtPacket(v), 4)

DictWire(body) == Node(MAGIC_KEY_DICTIONARY, body)

DictHeads ==
    { << >>, AsBytes(QTValueAsQtPacket(UInt32(7))),
      AsBytes(QTValueAsQtPacket(UInt32(7)))
          \o AsBytes(QTValueAsQtPacket(KeyValuePair(StringKey(<<97>>), Boolean(TRUE)))) }

OverlongLeaves == { Data(<<1, 2>>), StringValue(<<97>>), UInt32(7) }

\* dictionaries whose last child declares more bytes than the nested buffer
\* has left (by 1, or by more than the whole nested buffer)
OverlongDictWires ==
    { DictWire(h \o Overlong(v, k)) : h \in DictHeads, v \in OverlongLeaves, k \in {1, 64} }

\* dictionaries with one to seven stray bytes after the last child
StrayDictWires ==
    { DictWire(h \o Take(<<9, 0, 0, 0, 118, 108, 117>>, n)) : h \in DictHeads, n \in {1, 4, 7} }

\* nodes whose declared length is below the 8 bytes of length and magic
ShortLengthNodes ==
    { U32LE(n) \o U32LE(magic) :
        n \in {0, 4, 7},
        magic \in {MAGIC_KEY_STRING, MAGIC_KEY_DATA_VALUE, MAGIC_KEY_DICTIONARY} }

\* a 'bulv' without body, 'nmbv' bodies shorter than their subtype needs and
\* 'idxk' bodies of fewer than 2 bytes
ShortBodyNodes ==
    { Node(MAGIC_KEY_BOOLEAN, << >>),
      Node(MAGIC_KEY_NUMBER_VALUE, << >>),
      Node(MAGIC_KEY_NUMBER_VALUE, <<6, 1, 2>>),
      Node(MAGIC_KEY_NUMBER_VALUE, <<5, 1, 2, 3>>),
      Node(MAGIC_KEY_NUMBER_VALUE, <<4>>),
      Node(MAGIC_KEY_NUMBER_VALUE, <<3>>),
      Node(MAGIC_KEY_IDX, << >>),
      Node(MAGIC_KEY_IDX, <<49>>) }

MalformedNodes == ShortLengthNodes \cup ShortBodyNodes

ValueWires ==
    OverlongDictWires \cup StrayDictWires \cup { DictWire(h) : h \in DictHeads }
        \cup MalformedNodes

InitWire ==
    /\ IdleUsb
    /\ IdleRead
    /\ IdleMain
    /\ packet_pool = << >>
    /\ qv_in = NoValue
    /\ qv_bytes = << >>
    /\ qv_out = POk(NoValue, NoPkt)
    /\ qv_pc = "idle"
    /\ \/ wire_in \in DescWires /\ wire_pc = "descriptor"
       \/ wire_in \in ValueWires /\ wire_pc = "value"
    /\ wire_out = POk(NoValue, NoPkt)
    /\ wire_bytes = << >>
    /\ wire_again = POk(NoValue, NoPkt)

\* FormatDescriptor::from_qt_packet on a packet whose cursor is at 'mdia'
ParseDescriptor ==
    /\ wire_pc = "descriptor"
    /\ wire_out' = FormatDescriptorFromQtPacket(Pkt(QTPacketNew \o wire_in, 4))
    /\ wire_pc' = "parsed"
    /\ UNCHANGED <<wire_in, wire_bytes, wire_again, qv_in, qv_bytes, qv_out, qv_pc,
                   usbVars, packet_pool, readVars, mainVars>>

\* QTValue::from_qt_packet on a packet whose cursor is at the node
ParseValue ==
    /\ wire_pc = "value"
    /\ wire_out' = QTValueFromQtPacket(Pkt(QTPacketNew \o wire_in, 4))
    /\ wire_pc' = "parsed_value"
    /\ UNCHANGED <<wire_in, wire_bytes, wire_again, qv_in, qv_bytes, qv_out, qv_pc,
                   usbVars, packet_pool, readVars, mainVars>>

\* fd.as_qt_packet() followed by as_bytes()
SerializeDescriptor ==
    /\ wire_pc = "parsed"
    /\ wire_out.kind = "ok"
    /\ wire_bytes' = AsBytes(FormatDescriptorAsQtPacket(wire_out.val))
    /\ wire_pc' = "serialized"
    /\ UNCHANGED <<wire_in, wire_out, wire_again, qv_in, qv_bytes, qv_out, qv_pc,
                   usbVars, packet_pool, readVars, mainVars>>

\* FormatDescriptor::from_qt_packet on those bytes: on the packet as_bytes
\* leaves (cursor 0), or on QTPacket::from_bytes of them (cursor 4)
ReparseDescriptor(pos) ==
    /\ wire_pc = "serialized"
    /\ wire_again' = FormatDescriptorFromQtPacket(Pkt(wire_bytes, pos))
    /\ wire_pc' = "reparsed"
    /\ UNCHANGED <<wire_in, wire_out, wire_bytes, qv_in, qv_bytes, qv_out, qv_pc,
                   usbVars, packet_pool, readVars, mainVars>>

NextWire ==
    \/ ParseDescriptor
    \/ ParseValue
    \/ SerializeDescriptor
    \/ \E pos \in {0, 4} : ReparseDescriptor(pos)

SpecWire == InitWire /\ [][NextWire]_vars

\* C17: for every descriptor fd that from_qt_packet returned, audio or video,
\* parsing the bytes of fd.as_qt_packet() succeeds and gives the media type,
\* dimensions, codec, extensions and audio description of fd.
C17_DescriptorRoundTrip ==
    wire_pc = "reparsed" =>
        /\ wire_again.kind = "ok"
        /\ wire_again.val.num = wire_out.val.num
        /\ wire_again.val.fd.video_dimension_width = wire_out.val.fd.video_dimension_width
        /\ wire_again.val.fd.video_dimension_height = wire_out.val.fd.video_dimension_height
        /\ wire_again.val.fd.codec = wire_out.val.fd.codec
        /\ wire_again.val.kids = wire_out.val.kids
        /\ wire_again.val.fd.audio_stream_basic_description
              = wire_out.val.fd.audio_stream_basic_description


\* the video descriptors that have exactly one IdxKey(49) extension, the one
\* carrying AvccOne(sps, pps), next to extensions under other keys
WiresWithAvcc(sps, pps) ==
    { WireVideo(x) : x \in { y \in ExtLists({ExtAvcc(AvccOne(sps, pps)), OtherKeyExt}) :
                               Cardinality({i \in DOMAIN y : y[i] # OtherKeyExt}) = 1 } }

\* C18: a video descriptor whose IdxKey(49) extension is a dictionary with
\* first entry IdxKey(105) -> Data(avcc), avcc declaring one SPS of m bytes
\* and one PPS of n bytes, parses, and sps() and pps() return exactly those
\* m and n bytes.
C18_AvccExtraction ==
    \A sps \in SpsChoices, pps \in PpsChoices :
        (wire_pc # "descriptor" /\ wire_in \in WiresWithAvcc(sps, pps))
            => /\ wire_out.kind = "ok"
               /\ wire_out.val.fd.avc1.some
               /\ AVC1Sps(wire_out.val.fd.avc1.v) = [kind |-> "ok", v |-> sps]
               /\ AVC1Pps(wire_out.val.fd.avc1.v) = [kind |-> "ok", v |-> pps]

\* the descriptor with a 7-byte SPS and a 4-byte PPS has been parsed
C18_Witness ==
    /\ wire_pc = "parsed"
    /\ wire_in \in WiresWithAvcc(<<103, 100, 0, 31, 172, 86, 192>>, <<104, 238, 60, 176>>)
    /\ Len(AVC1Sps(wire_out.val.fd.avc1.v).v) = 7
    /\ Len(AVC1Pps(wire_out.val.fd.avc1.v).v) = 4


\* C19: a video descriptor whose AVCC chain is incomplete in any way (no
\* IdxKey(49) extension, its value not a dictionary, an empty dictionary,
\* first entry not a pair, first key not IdxKey(105), value not Data) is
\* still returned successfully by from_qt_packet, with no SPS/PPS attached.
C19_IncompleteChain ==
    \A x \in { << >> } \cup { <<e>> : e \in IncompleteExts } :
        (wire_pc # "descriptor" /\ wire_in = WireVideo(x))
            => /\ wire_out.kind = "ok"
               /\ ~wire_out.val.fd.avc1.some


\* C20: parsing a dictionary ends successfully only with the cursor of the
\* nested buffer at the buffer's end (the children parsed account for every
\* byte of it), and a child that declares more bytes than the nested buffer
\* has left makes QTValue::from_qt_packet return an error, not a shortened
\* dictionary.
C20_DictFraming ==
    wire_pc = "parsed_value" =>
        /\ wire_out.kind = "ok" => Len(WriteAll(wire_out.val.kids)) = Len(wire_in) - 8
        /\ wire_in \in OverlongDictWires => wire_out.kind = "err"


(***************************************************************************)
(* The USB device layer (src/src/apple.rs): finding the device by its      *)
(* serial number and switching its QuickTime configuration on and off.     *)
(***************************************************************************)
MaxAttached == 2

MaxCalls == 3

\* an attached device: its iSerial string, and whether open() and the
\* string reads succeed on it
UsbDevice(serial, opens) == [serial |-> serial, opens |-> opens]

UsbSerials == { <<65, 66, 67>>, <<65, 67, 67>>, <<65>> }

UsbDevices == { UsbDevice(s, o) : s \in UsbSerials, o \in BOOLEAN }

UsbLists == UNION { [1..n -> UsbDevices] : n \in 0..MaxAttached }

SerialPrefixes == { <<65, 66>>, <<65>> }

UsbOk(i) == [kind |-> "ok", err |-> "", idx |-> i]

UsbErr(e) == [kind |-> "err", err |-> e, idx |-> 0]

UsbPanic == [kind |-> "panic", err |-> "", idx |-> 0]

\* get_usb_device (apple.rs:255-298) from the i-th device of the list on:
\* a device that cannot be opened or read ends the search with its error;
\* &usn.as_bytes()[..sn_bytes.len()] panics on a serial shorter than sn
RECURSIVE GetUsbDevice(_, _, _)
GetUsbDevice(sn, devices, i) ==
    IF i > Len(devices) THEN UsbErr("NotFound")
    ELSE IF ~devices[i].opens THEN UsbErr("Access")
    ELSE IF Len(devices[i].serial) < Len(sn) THEN UsbPanic
    ELSE IF Take(devices[i].serial, Len(sn)) = sn THEN UsbOk(i)
    ELSE GetUsbDevice(sn, devices, i + 1)

\* AppleDevice::set_qt_enabled (apple.rs:137-202) with is_qt_enabled
\* (apple.rs:41-60): view is what the descriptors behind self.device show,
\* readable whether config_descriptor succeeds, accepted whether
\* write_control succeeds, reopened whether the device is found again, with
\* the interface, by the polling loop.  sent counts the vendor control
\* transfers the device accepted.
SetQtEnabledCall(view, enabled, readable, accepted, reopened) ==
    IF ~readable THEN [kind |-> "err", sent |-> 0]
    ELSE IF view = enabled THEN [kind |-> "ok", sent |-> 0]
    ELSE IF ~accepted THEN [kind |-> "err", sent |-> 0]
    ELSE IF ~enabled THEN [kind |-> "ok", sent |-> 1]
    ELSE IF ~reopened THEN [kind |-> "err", sent |-> 1]
    ELSE [kind |-> "ok", sent |-> 1]

InitUsb ==
    /\ IdleRead
    /\ IdleMain
    /\ packet_pool = << >>
    /\ qv_in = NoValue
    /\ qv_bytes = << >>
    /\ qv_out = POk(NoValue, NoPkt)
    /\ qv_pc = "idle"
    /\ wire_in = << >>
    /\ wire_out = POk(NoValue, NoPkt)
    /\ wire_bytes = << >>
    /\ wire_again = POk(NoValue, NoPkt)
    /\ wire_pc = "idle"
    /\ usb_list \in UsbLists
    /\ usb_sn \in SerialPrefixes
    /\ usb_got = [kind |-> "none", err |-> "", idx |-> 0]
    /\ usb_iface \in BOOLEAN
    /\ usb_view = usb_iface
    /\ usb_stale = FALSE
    /\ usb_pending = "none"
    /\ usb_log = << >>
    /\ init_log = << >>

\* main's call of get_usb_device (main.rs:65)
FindDevice ==
    /\ usb_got.kind = "none"
    /\ usb_got' = GetUsbDevice(usb_sn, usb_list, 1)
    /\ UNCHANGED <<usb_list, usb_sn, usb_iface, usb_view, usb_stale, usb_pending, usb_log,
                   init_log, qv_in, qv_bytes, qv_out, qv_pc, wireVars, packet_pool, readVars,
                   mainVars>>

\* one call of set_qt_enabled on the device found.  The switch on is
\* complete when the call returns Ok (the polling loop has reopened the
\* device and seen the interface); the switch off is only requested.
SetQtEnabled(enabled) ==
    /\ usb_got.kind = "ok"
    /\ Len(usb_log) < MaxCalls
    /\ \E readable \in BOOLEAN, reopened \in BOOLEAN,
          accepted \in { a \in BOOLEAN : a => ~usb_stale } :
         \E r \in {SetQtEnabledCall(usb_view, enabled, readable, accepted, reopened)} :
            /\ usb_log' = Append(usb_log,
                                 [on |-> enabled, present |-> usb_view,
                                  readable |-> readable, kind |-> r.kind,
                                  sent |-> r.sent])
            /\ IF r.sent = 1 /\ enabled /\ r.kind = "ok"
               THEN /\ usb_iface' = TRUE
                    /\ usb_view' = TRUE
                    /\ usb_stale' = FALSE
                    /\ usb_pending' = "none"
               ELSE /\ usb_pending' = IF r.sent = 0 THEN usb_pending
                                      ELSE IF enabled THEN "on" ELSE "off"
                    /\ UNCHANGED <<usb_iface, usb_view, usb_stale>>
    /\ UNCHANGED <<usb_list, usb_sn, usb_got, init_log, qv_in, qv_bytes, qv_out, qv_pc,
                   wireVars, packet_pool, readVars, mainVars>>

\* the device carries out the switch it accepted and re-enumerates: the
\* handle the host holds is of the instance that is gone; the descriptors
\* behind self.device may or may not follow
Reenumerate ==
    /\ usb_pending # "none"
    /\ usb_iface' = (usb_pending = "on")
    /\ usb_view' \in {usb_view, usb_pending = "on"}
    /\ usb_stale' = TRUE
    /\ usb_pending' = "none"
    /\ UNCHANGED <<usb_list, usb_sn, usb_got, usb_log, init_log, qv_in, qv_bytes, qv_out,
                   qv_pc, wireVars, packet_pool, readVars, mainVars>>

NextUsb ==
    \/ FindDevice
    \/ \E enabled \in BOOLEAN : SetQtEnabled(enabled)
    \/ Reenumerate

SpecUsb == InitUsb /\ [][NextUsb]_vars

\* C21: a call of set_qt_enabled(on) that finds the QuickTime interface
\* present exactly when on is true returns success and sends no control
\* transfer; two consecutive successful calls with the same argument send at
\* most one control transfer in total.
C21_EnableIdempotent ==
    /\ \A i \in 1..Len(usb_log) :
          (usb_log[i].readable /\ usb_log[i].present = usb_log[i].on)
              => (usb_log[i].kind = "ok" /\ usb_log[i].sent = 0)
    /\ \A i \in 1..(Len(usb_log) - 1) :
          ( /\ usb_log[i].kind = "ok"
            /\ usb_log[i + 1].kind = "ok"
            /\ usb_log[i].on = usb_log[i + 1].on )
              => usb_log[i].sent + usb_log[i + 1].sent <= 1


\* the attached devices that can be opened and whose serial equals sn on its
\* first Len(sn) bytes
Matching(sn, devices) ==
    { i \in 1..Len(devices) :
        /\ devices[i].opens
        /\ Len(devices[i].serial) >= Len(sn)
        /\ Take(devices[i].serial, Len(sn)) = sn }

\* C22: for every list of attached devices, the ones with a serial shorter
\* than the prefix or that cannot be opened included, get_usb_device returns
\* the first device whose serial matches the prefix, and fails with NotFound
\* when none matches.
C22_FirstMatchOrNotFound ==
    usb_got.kind # "none" =>
        IF Matching(usb_sn, usb_list) = {}
        THEN usb_got = UsbErr("NotFound")
        ELSE usb_got = UsbOk(CHOOSE i \in Matching(usb_sn, usb_list) :
                                \A j \in Matching(usb_sn, usb_list) : i <= j)


(***************************************************************************)
(* The protocol loop with SIGINT arriving while a pass is in progress      *)
(* (main.rs:88-89); the host clock stands still.                           *)
(***************************************************************************)
NextCancel ==
    \/ \E bulk \in DeviceSends(packet_pool), w \in 0..MaxWrites, checked \in BOOLEAN,
          sig \in BOOLEAN :
          LoopPass(bulk, w, checked, sig)
    \/ Send
    \/ Close
    \/ \E w \in 0..2, enabled \in {"yes", "no", "error"} : DropQT(w, enabled)
    \/ ConsumerRecv
    \/ ConsumerDisconnected
    \/ Join
    \/ MainExit

SpecCancel == Init /\ [][NextCancel]_vars

\* the consumer has kept receiving: main has not panicked on an item and
\* the channel was open when run() sent to it
ConsumerKeptReceiving == run_result # "killed" /\ exit_fault # "channel"

\* C23: once the terminate flag is set no new pass of the loop is started
\* after the one in progress, and, the in-flight bulk read having returned or
\* timed out and the consumer having kept receiving, run() exits with the
\* terminal error sent to the consumer.
C23_Cancellation ==
    [][/\ term => (qt' = qt /\ packet_pool' = packet_pool /\ last_pass' = last_pass)
       /\ (term' /\ pc' = "done" /\ ConsumerKeptReceiving')
             => \E i \in 1..Len(teardown') : teardown'[i] = EvTerminalError]_vars

\* ---- packets the dispatcher has no arm for (qt.rs:542-544, 396-398, 472-480) ----
\* 'zzzz', a magic no table of qt_pkt.rs holds
MAGIC_UNKNOWN == U32At(<<122, 122, 122, 122>>, 0)

\* correlation id 0x11
CORR_11 == U64LE(17)

\* a 32-byte SYNC 'go! ' with that correlation id
GoPacket11 == DevSync(CLOCK_REF_A, SYNC_PACKET_MAGIC_OG, CORR_11, U32LE(1))

\* an 'eat!' whose sample buffer carries an 'opts' node, and one without
EatWithOpts ==
    DevAsyn(CLOCK_REF_B, ASYN_PACKET_MAGIC_EAT,
            Node(SBUF, Node(OPTS, TimeAsBytes(OptsTime)) \o Node(SDAT, <<1, 2>>)))

EatWithoutOpts ==
    DevAsyn(CLOCK_REF_B, ASYN_PACKET_MAGIC_EAT, Node(SBUF, Node(SDAT, <<1, 2>>)))

SessionPackets ==
    { GoPacket11,
      DevSync(CLOCK_REF_A, SYNC_PACKET_MAGIC_CWPA, CORR_B, CLOCK_REF_B),
      DevSync(CLOCK_REF_B, SYNC_PACKET_MAGIC_CVRP, CORR_A,
              CLOCK_REF_A \o AsBytes(QTValueAsQtPacket(
                  Object(<< KeyValuePair(StringKey(STR_Width), UInt32(7)) >>)))),
      DevSync(CLOCK_REF_A, SYNC_PACKET_MAGIC_CLOK, CORR_A, << >>),
      DevSync(CLOCK_REF_B, SYNC_PACKET_MAGIC_CWPA, CORR_A, CLOCK_REF_A),
      EatWithOpts, EatWithoutOpts }

UnknownOuterPackets ==
    { FramedPacket(U32LE(PACKET_MAGIC_REPLY)),
      FramedPacket(U32LE(MAGIC_UNKNOWN) \o CLOCK_REF_A \o U32LE(SYNC_PACKET_MAGIC_OG)
                       \o CORR_A) }

UnknownSyncPackets ==
    { DevSync(CLOCK_REF_A, MAGIC_UNKNOWN, CORR_A, << >>),
      DevSync(CLOCK_REF_B, ASYN_PACKET_MAGIC_FEED, CORR_B, U32LE(1)) }

UnhandledAsynMagics ==
    { ASYN_PACKET_MAGIC_SPRP, ASYN_PACKET_MAGIC_TJMP, ASYN_PACKET_MAGIC_SRAT,
      ASYN_PACKET_MAGIC_TBAS, ASYN_PACKET_MAGIC_RELS, MAGIC_UNKNOWN,
      SYNC_PACKET_MAGIC_CWPA }

UnhandledAsynPackets ==
    { DevAsyn(CLOCK_REF_B, m, << >>) : m \in UnhandledAsynMagics }
        \cup { DevAsyn(CLOCK_REF_A, ASYN_PACKET_MAGIC_TJMP,
                       Node(SBUF, Node(SDAT, <<1, 2>>))) }

UnhandledPackets == UnknownOuterPackets \cup UnknownSyncPackets \cup UnhandledAsynPackets

\* run() fed whole packets, handled and unhandled in any order.  The only
\* samples are audio ones, which the consumer takes without panicking, so
\* main never exits while the session thread is still running.
NextIgnore ==
    \/ \E bulk \in {BulkError} \cup { Bulk(d) : d \in SessionPackets \cup UnhandledPackets },
          w \in 0..MaxWrites, checked \in BOOLEAN :
          Iterate(bulk, w, checked)
    \/ Signal
    \/ Send
    \/ Close
    \/ \E w \in 0..2, enabled \in {"yes", "no", "error"} : DropQT(w, enabled)
    \/ ConsumerRecv
    \/ ConsumerDisconnected
    \/ Join

SpecIgnore == Init /\ [][NextIgnore]_vars

\* C24: a pass of the loop over a packet the dispatcher has no arm for
\* (unknown outer magic, SYNC with an unrecognised inner magic, ASYN with
\* an inner magic other than 'eat!' and 'feed') writes nothing to the
\* device, enqueues nothing on the channel, leaves every field of the
\* session as it was, and leaves the loop running.
C24_UnhandledIgnored ==
    [][\A pkt \in UnhandledPackets :
          Handled(pkt) =>
              /\ last_pass'.wrote = << >>
              /\ last_pass'.outcome = "continue"
              /\ pending' = None(NoSample)
              /\ chan' = chan
              /\ qt' = qt
              /\ pc' = "run"
              /\ run_result' = run_result]_vars

\* an unhandled SYNC went through a session that had its clocks set up and
\* a sample waiting on the channel
C24_Witness ==
    /\ last_pass.pkt \in UnknownSyncPackets
    /\ last_pass.outcome = "continue"
    /\ qt.device_audio_clock.some
    /\ qt.start_time_device_audio_clock.some
    /\ chan # << >>
    /\ pc = "run"

\* the same for an ASYN 'rels'
C24_WitnessAsyn ==
    /\ last_pass.pkt = DevAsyn(CLOCK_REF_B, ASYN_PACKET_MAGIC_RELS, << >>)
    /\ qt.device_audio_clock.some
    /\ pc = "run"

\* the reply to GoPacket11 as write_bulk gets it: total length 0x18, the
\* magic 0x72706C79 least significant byte first, the correlation id, a
\* 4-byte zero pad and a 4-byte zero body
GoReplyOnWire ==
    <<24, 0, 0, 0, 121, 108, 112, 114, 17, 0, 0, 0, 0, 0, 0, 0, 0, 0, 0, 0, 0, 0, 0, 0>>

\* 14 00 00 00 72 70 6C 79 11 00 .. 00
GoReplyAsStated ==
    <<20, 0, 0, 0, 114, 112, 108, 121, 17, 0, 0, 0, 0, 0, 0, 0, 0, 0, 0, 0, 0, 0, 0, 0>>

GoReplied == Handled(GoPacket11) /\ last_pass'.outcome = "continue"

\* C25: for the 32-byte SYNC 'go! ' packet with correlation id 0x11 the
\* bytes written back are exactly 18 00 00 00 79 6C 70 72 11 00 00 00 00 00
\* 00 00 00 00 00 00 00 00 00 00: the length field counts all 24 bytes and
\* the magic 'rply' goes out as a little-endian u32.
C25_GoReplyBytes == [][GoReplied => last_pass'.wrote = << GoReplyOnWire >>]_vars

\* C25 as stated: the bytes written back are exactly 14 00 00 00 72 70 6C 79
\* 11 00 00 00 00 00 00 00 00 00 00 00 00 00 00 00.
C25_GoReplyAsStated == [][GoReplied => last_pass'.wrote = << GoReplyAsStated >>]_vars

\* the 'go! ' was answered and the loop went on
C25_Witness ==
    /\ Len(GoPacket11) = 32
    /\ last_pass = Pass(GoPacket11, << GoReplyOnWire >>, "continue")
    /\ pc = "run"

\* ---- the 'formats' value of the HPA1 dictionary, read back off the wire ----
\* the dictionary of an ASYN packet as written: what follows the length,
\* 'asyn', the 8-byte header and the sub-type (qt_pkt.rs:362-398)
AsynDictOnWire(bytes) == QTValueFromQtPacket(Pkt(QTPacketNew \o Drop(bytes, 20), 4))

\* the Data bytes stored under a string key of a parsed dictionary
DataUnder(dict, key) ==
    { dict.kids[i].kids[2].bytes :
        i \in { j \in 1..Len(dict.kids) :
                  /\ dict.kids[j].kids[1] = StringKey(key)
                  /\ dict.kids[j].kids[2].tag = "Data" } }

CwpaAnswered ==
    /\ last_pass' # last_pass
    /\ IsSync(last_pass'.pkt, SYNC_PACKET_MAGIC_CWPA)
    /\ last_pass'.outcome = "continue"

\* the 'formats' entries of the HPA1 packet the latest pass wrote
FormatsWritten(pass) == DataUnder(AsynDictOnWire(pass.wrote[3]).val, STR_formats)

\* C26: the 'formats' Data value advertised in the HPA1 dictionary is the
\* default AudioStreamDescription serialized as its nine fields (40 bytes)
\* followed by 16 trailing bytes (two f64 copies of sample_rate), 56 bytes
\* in total.
C26_FormatsData ==
    [][CwpaAnswered =>
          /\ Len(last_pass'.wrote) = 3
          /\ U32At(last_pass'.wrote[3], 16) = HPA1
          /\ AsynDictOnWire(last_pass'.wrote[3]).kind = "ok"
          /\ FormatsWritten(last_pass') = { DefaultAsbdFields \o F64_48000 \o F64_48000 }
          /\ \A d \in FormatsWritten(last_pass') :
                Len(d) = 56 /\ Len(DefaultAsbdFields) = 40]_vars

\* C26 as stated: a 56-byte description followed by 16 trailing bytes, 72
\* bytes in total.
C26_FormatsDataAsStated ==
    [][CwpaAnswered =>
          \A d \in FormatsWritten(last_pass') :
              /\ Len(d) = 72
              /\ Drop(d, 56) = F64_48000 \o F64_48000]_vars

\* a 'cwpa' was answered with the three packets, the HPA1 one last
C26_Witness ==
    /\ IsSync(last_pass.pkt, SYNC_PACKET_MAGIC_CWPA)
    /\ last_pass.outcome = "continue"
    /\ Len(last_pass.wrote) = 3
    /\ FormatsWritten(last_pass) # {}

\* an 'eat!' was handled by a session that had recorded an audio start before
LaterEat ==
    /\ last_pass' # last_pass
    /\ IsAsyn(last_pass'.pkt, ASYN_PACKET_MAGIC_EAT)
    /\ last_pass'.outcome = "send"
    /\ qt.start_time_local_audio_clock.some

\* C27: after a 'cwpa', an 'eat!' that follows an earlier 'eat!' leaves
\* start_time_device_audio_clock and start_time_local_audio_clock as the
\* first 'eat!' recorded them, whether or not the frames carry an 'opts'
\* output PTS; it changes only the two last_eat fields.
C27_StartTimesKept ==
    [][LaterEat =>
          /\ qt'.start_time_device_audio_clock = qt.start_time_device_audio_clock
          /\ qt'.start_time_local_audio_clock = qt.start_time_local_audio_clock
          /\ qt' = [qt EXCEPT
                      !.last_eat_frame_received_device_audio_clock =
                          qt'.last_eat_frame_received_device_audio_clock,
                      !.last_eat_frame_received_local_audio_clock =
                          qt'.last_eat_frame_received_local_audio_clock]]_vars

\* the same for sessions whose first 'eat!' carried an 'opts'
C27_StartTimesKeptAfterOpts ==
    [][LaterEat /\ qt.last_eat_frame_received_device_audio_clock.some =>
          /\ qt'.start_time_device_audio_clock = qt.start_time_device_audio_clock
          /\ qt'.start_time_local_audio_clock = qt.start_time_local_audio_clock]_vars

\* ---- single calls of read() (qt.rs:91-150) ----
\* a call of read() was made; the chunk its read_bulk got; the pool once
\* the chunk is appended
ReadCalled == nreads' = nreads + 1

ChunkRead == Take(stream, Len(stream) - Len(stream'))

PoolAfterAppend == packet_pool \o ChunkRead

\* the pool begins with a packet that is there in full
HoldsCompletePacket(pool) == Len(pool) >= 4 /\ Len(pool) >= U32At(pool, 0)

\* C28: when, after appending a non-empty bulk chunk, the pool holds fewer
\* than 4 bytes, read() gives Ok(None) and keeps the bytes in the pool; it
\* returns no error.
C28_ShortPoolIsNoPacketYet ==
    [][ReadCalled /\ ChunkRead # << >> /\ Len(PoolAfterAppend) < 4 =>
          /\ rstatus' = "ok"
          /\ delivered' = delivered
          /\ packet_pool' = PoolAfterAppend]_vars

\* C29: when one bulk chunk completes more than one packet, read() leaves no
\* complete packet in the pool when it returns: all of them are delivered
\* before the next read_bulk.
C29_NoCompletePacketWaits ==
    [][ReadCalled /\ rstatus' = "ok" => ~HoldsCompletePacket(packet_pool')]_vars

\* ---- streams that end in a length field below 4 ----
ShortHeads ==
    { U32LE(n) \o tail : n \in 0..3, tail \in {<< >>, <<103, 110, 105, 112>>} }

InitShort ==
    /\ IdleValue
    /\ IdleMain
    /\ sent \in PacketSeqs
    /\ stream \in { Concat(sent) \o h : h \in ShortHeads }
    /\ packet_pool = << >>
    /\ delivered = << >>
    /\ rstatus = "ok"
    /\ nreads = 0

SpecShort == InitShort /\ [][NextRead]_vars

\* C30: when the length field at the head of the pool is less than 4,
\* read() returns an error to its caller: it yields no packet and does not
\* panic.
C30_ShortLengthIsError ==
    [][ReadCalled /\ Len(PoolAfterAppend) >= 4 /\ U32At(PoolAfterAppend, 0) < 4 =>
          /\ rstatus' = "err"
          /\ delivered' = delivered]_vars

\* ---- teardown (qt.rs:483-510, 556-576) ----
\* the session object was dropped in this step
Dropped == pc = "drop" /\ pc' = "done" /\ run_result' # "killed"

\* C31: on every exit path of the session, also when the write of 'hpa0' or
\* 'hpd0' fails, the teardown goes on to its remaining steps: the drop of the
\* session does not end in a panic, so the attempt to disable QuickTime mode
\* is still reached.
C31_TeardownBestEffort == [][Dropped => run_result' = run_result]_vars

\* the same for sessions that handled no 'cwpa', which have nothing to write
C31_TeardownWithoutAudio ==
    [][Dropped /\ ~qt.device_audio_clock.some => run_result' = run_result]_vars

\* the teardown packets as write_bulk gets them
Hpa0OnWire(clock) == DevAsyn(clock, HPA0, << >>)

Hpd0OnWire == DevAsyn(U64LE(1), HPD0, << >>)

IsTeardownPacket(bytes) == IsAsyn(bytes, HPA0) \/ IsAsyn(bytes, HPD0)

\* the bulk writes among the events the teardown record gained in this step
RECURSIVE WritesOf(_)
WritesOf(evs) ==
    IF evs = << >> THEN << >>
    ELSE (IF Head(evs).ev = "write" THEN << Head(evs).bytes >> ELSE << >>)
             \o WritesOf(Tail(evs))

TeardownWrote == WritesOf(Drop(teardown', Len(teardown)))

\* C32: device_audio_clock is set by 'cwpa' alone, to the clock reference of
\* the packet.  When the session is dropped and its writes go through, the
\* teardown writes 'hpa0' with that clock as header and then 'hpd0' with
\* header 1 if a 'cwpa' was handled, and writes nothing otherwise.  No pass
\* of the loop writes either packet, and nothing is written once the
\* session is dropped, so each goes out at most once.
C32_TeardownPackets ==
    [][/\ qt'.device_audio_clock # qt.device_audio_clock =>
              /\ last_pass' # last_pass
              /\ IsSync(last_pass'.pkt, SYNC_PACKET_MAGIC_CWPA)
       /\ (last_pass' # last_pass /\ IsSync(last_pass'.pkt, SYNC_PACKET_MAGIC_CWPA)
              /\ last_pass'.outcome = "continue") =>
              qt'.device_audio_clock = Some(Take(SyncBody(last_pass'.pkt), 8))
       /\ (Dropped /\ run_result' = run_result) =>
              TeardownWrote = IF qt.device_audio_clock.some
                              THEN << Hpa0OnWire(qt.device_audio_clock.v), Hpd0OnWire >>
                              ELSE << >>
       /\ \A i \in 1..Len(last_pass'.wrote) : ~IsTeardownPacket(last_pass'.wrote[i])
       /\ TeardownWrote # << >> => pc = "drop" /\ pc' = "done"
       /\ pc = "done" => TeardownWrote = << >> /\ pc' = "done"]_vars

\* a session whose 'cwpa' carried CLOCK_REF_A, and which made a further pass
\* after it, was dropped: 'hpa0' with that clock, then 'hpd0', went out
C32_Witness ==
    /\ pc = "done"
    /\ qt.device_audio_clock = Some(CLOCK_REF_A)
    /\ last_pass.pkt # DevSync(CLOCK_REF_B, SYNC_PACKET_MAGIC_CWPA, CORR_A, CLOCK_REF_A)
    /\ WritesOf(teardown) = << Hpa0OnWire(CLOCK_REF_A), Hpd0OnWire >>

(***************************************************************************)
(* The start of a session: QuickTime::init (src/src/qt.rs:70-89) as main   *)
(* calls it (src/src/main.rs:78-98), then the loop.                        *)
(***************************************************************************)
InitStep(step, ok) == [step |-> step, ok |-> ok]

InitResult(kind, log) == [kind |-> kind, log |-> log]

\* an init() that goes on to init_bulk_endpoint after a failed claim_interface
QuickTimeInitPastClaim(enabled, claimed, bulk, cleared) ==
    IF ~enabled THEN InitResult("panic", << InitStep("set_qt_enabled(true)", FALSE) >>)
    ELSE IF ~bulk
    THEN InitResult("err", << InitStep("set_qt_enabled(true)", TRUE),
                              InitStep("claim_interface", claimed),
                              InitStep("init_bulk_endpoint", FALSE) >>)
    ELSE InitResult(IF claimed /\ cleared THEN "ok" ELSE "err",
                    << InitStep("set_qt_enabled(true)", TRUE),
                       InitStep("claim_interface", claimed),
                       InitStep("init_bulk_endpoint", TRUE),
                       InitStep("clear_feature", cleared) >>)

\* QuickTime::init: each argument tells whether that call of the device
\* layer succeeds.  set_qt_enabled(true) meets expect(); the other three
\* return Err at the first Some(error).
QuickTimeInit(enabled, claimed, bulk, cleared) ==
    IF ~enabled THEN InitResult("panic", << InitStep("set_qt_enabled(true)", FALSE) >>)
    ELSE IF ~claimed
    THEN InitResult("err", << InitStep("set_qt_enabled(true)", TRUE),
                              InitStep("claim_interface", FALSE) >>)
    ELSE IF ~bulk
    THEN InitResult("err", << InitStep("set_qt_enabled(true)", TRUE),
                              InitStep("claim_interface", TRUE),
                              InitStep("init_bulk_endpoint", FALSE) >>)
    ELSE InitResult(IF cleared THEN "ok" ELSE "err",
                    << InitStep("set_qt_enabled(true)", TRUE),
                       InitStep("claim_interface", TRUE),
                       InitStep("init_bulk_endpoint", TRUE),
                       InitStep("clear_feature", cleared) >>)

\* main before qt.init()
InitLife ==
    /\ IdleRead
    /\ IdleValue
    /\ packet_pool = << >>
    /\ qt = QuickTimeNew
    /\ term = FALSE
    /\ chan = << >>
    /\ pc = "init"
    /\ pending = None(NoSample)
    /\ run_result = "none"
    /\ exit_fault = "none"
    /\ consumer = "recv"
    /\ host_now = 0
    /\ last_pass = NoPass
    /\ teardown = << >>
    /\ order_log = FALSE
    /\ dispatched = << >>
    /\ received = << >>

\* main.rs:78-98: on Ok the thread is spawned and runs the loop; on Err main
\* prints and returns, on a panic it unwinds: either way qt is dropped in
\* main and the receiving loop is never entered.
InitQT(enabled, claimed, bulk, cleared) ==
    /\ pc = "init"
    /\ \E r \in {QuickTimeInit(enabled, claimed, bulk, cleared)} :
        /\ init_log' = r.log
        /\ pc' = IF r.kind = "ok" THEN "run" ELSE "drop"
        /\ run_result' = CASE r.kind = "ok" -> run_result
                           [] r.kind = "err" -> "init_err"
                           [] OTHER -> "panic"
        /\ consumer' = IF r.kind = "ok" THEN consumer ELSE "absent"
    /\ UNCHANGED <<qt, packet_pool, term, chan, pending, exit_fault, host_now, last_pass,
                   teardown, readVars, orderVars, qv_in, qv_bytes, qv_out, qv_pc,
                   wireVars, usb_list, usb_sn, usb_got, usb_iface, usb_view, usb_stale,
                   usb_pending, usb_log>>

NextLife ==
    \/ \E enabled \in BOOLEAN, claimed \in BOOLEAN, bulk \in BOOLEAN, cleared \in BOOLEAN :
          InitQT(enabled, claimed, bulk, cleared)
    \/ NextIgnore

SpecLife == InitLife /\ [][NextLife]_vars

InitSteps ==
    << "set_qt_enabled(true)", "claim_interface", "init_bulk_endpoint", "clear_feature" >>

InitSucceeded == Len(init_log) = 4 /\ \A i \in 1..4 : init_log[i].ok

\* C33: init() takes its steps in the order set_qt_enabled(true),
\* claim_interface, init_bulk_endpoint, clear_feature and takes none after
\* one that failed; the loop runs, a packet is read or written, and the
\* teardown writes to the bulk endpoint, only when all four succeeded.
C33_Lifecycle ==
    /\ Len(init_log) <= 4
    /\ \A i \in 1..Len(init_log) :
          /\ init_log[i].step = InitSteps[i]
          /\ i < Len(init_log) => init_log[i].ok
    /\ ~InitSucceeded =>
          /\ pc \in {"init", "drop", "done"}
          /\ last_pass = NoPass
          /\ packet_pool = << >>
          /\ chan = << >>
          /\ WritesOf(teardown) = << >>

\* init() failed at init_bulk_endpoint and the session object was dropped
C33_Witness ==
    /\ Len(init_log) = 3
    /\ ~init_log[3].ok
    /\ pc = "done"

\* init() succeeded and the loop answered a packet
C33_WitnessStreaming ==
    /\ InitSucceeded
    /\ last_pass.wrote # << >>

(***************************************************************************)
(* SampleBuffer::from_qt_packet on 'sbuf' nodes whose children include     *)
(* 'free' and unknown ones (src/src/coremedia/sample.rs:114-184)           *)
(***************************************************************************)
\* children of one 'sbuf'
MaxChildren == 3

KnownChildren ==
    { Node(OPTS, TimeAsBytes(OptsTime)),
      Node(SDAT, <<1, 2>>),
      Node(NSMP, U32LE(2)),
      Node(NSMP, <<2>>) }

SkippedChildren ==
    { Node(FREE, << >>),
      Node(FREE, <<0, 0, 0>>),
      Node(MAGIC_UNKNOWN, << >>),
      Node(MAGIC_UNKNOWN, Node(NSMP, U32LE(9))) }

SbufWires ==
    { Node(SBUF, Concat(cs)) :
        cs \in UNION { [1..n -> KnownChildren \cup SkippedChildren] : n \in 0..MaxChildren } }

InitSample ==
    /\ IdleUsb
    /\ IdleRead
    /\ IdleMain
    /\ packet_pool = << >>
    /\ qv_in = NoValue
    /\ qv_bytes = << >>
    /\ qv_out = POk(NoValue, NoPkt)
    /\ qv_pc = "idle"
    /\ wire_in \in SbufWires
    /\ wire_pc = "sample"
    /\ wire_out = POk(NoValue, NoPkt)
    /\ wire_bytes = << >>
    /\ wire_again = POk(NoValue, NoPkt)

\* the call the 'eat!' and 'feed' arms make (qt.rs:412, 447)
ParseSample(media_type) ==
    /\ wire_pc = "sample"
    /\ wire_out' = SampleBufferFromQtPacket(Pkt(QTPacketNew \o wire_in, 4), media_type)
    /\ wire_pc' = "parsed_sample"
    /\ UNCHANGED <<wire_in, wire_bytes, wire_again, qv_in, qv_bytes, qv_out, qv_pc,
                   usbVars, packet_pool, readVars, mainVars>>

NextSample == \E media_type \in {MEDIA_TYPE_SOUND, MEDIA_TYPE_VIDEO} : ParseSample(media_type)

SpecSample == InitSample /\ [][NextSample]_vars

\* the nodes a node body is made of, by their length fields
RECURSIVE NodesOf(_)
NodesOf(body) ==
    IF Len(body) < 8 \/ U32At(body, 0) < 8 \/ U32At(body, 0) > Len(body) THEN << >>
    ELSE << Take(body, U32At(body, 0)) >> \o NodesOf(Drop(body, U32At(body, 0)))

IsSkippedChild(node) == U32At(node, 4) \in {FREE, MAGIC_UNKNOWN}

KeptChild(node) == ~IsSkippedChild(node)

\* an 'sbuf' without its 'free' and unknown children
WithoutSkipped(wire) == Node(SBUF, Concat(SelectSeq(NodesOf(Drop(wire, 8)), KeptChild)))

\* C34: a child of an 'sbuf' with the 'free' magic or an unknown magic is
\* skipped: the result of SampleBuffer::from_qt_packet, the children after
\* it included, is the result for the same input with those children
\* removed, and no failure comes from the skipped child.
C34_SkippedChildren ==
    wire_pc = "parsed_sample" =>
        wire_out = SampleBufferFromQtPacket(
                       Pkt(QTPacketNew \o WithoutSkipped(wire_in), 4),
                       wire_out.sample.media_type)

\* an 'sbuf' with a 'free' child first, an unknown child and an 'opts' last
\* was parsed, and the 'opts' is in the result
C34_Witness ==
    /\ wire_pc = "parsed_sample"
    /\ wire_in = Node(SBUF, Node(FREE, << >>) \o Node(MAGIC_UNKNOWN, << >>)
                                \o Node(OPTS, TimeAsBytes(OptsTime)))
    /\ wire_out.kind = "ok"
    /\ wire_out.sample.output_presentation_time_stamp = Some(OptsTime)

\* the bytes of all bulk chunks read() has been handed so far
ChunksSoFar == Take(Concat(sent), Len(Concat(sent)) - Len(stream))

\* C35: after every call of read() that returns without error, the packets
\* returned so far, concatenated, followed by the pool are the bulk chunks
\* received so far, concatenated: no byte is lost, duplicated or reordered.
C35_ByteConservation ==
    (rstatus = "ok" /\ sent # << >>) => Concat(delivered) \o packet_pool = ChunksSoFar

\* two calls have returned, one packet is out and part of the next is in the pool
C35_Witness ==
    /\ rstatus = "ok"
    /\ nreads = 2
    /\ Len(delivered) = 1
    /\ packet_pool # << >>
    /\ stream # << >>

\* C36: in every reachable state of the session a SYNC request with a
\* recognised inner magic, 'skew' before any 'eat!' and 'time' before any
\* 'clok' included, is answered or ends in an error value: unless the
\* transport fails, the pass over it does not panic the protocol thread.
C36_SyncNeverPanics ==
    [][\A pkt \in DevSyncs :
          (Handled(pkt) /\ exit_fault' # "write") => last_pass'.outcome # "panic"]_vars

\* ---- the terminal error on the channel (qt.rs:548-550, main.rs:102-106) ----
TerminalErrorsSent == Len(SelectSeq(teardown, LAMBDA e : e = EvTerminalError))

\* at most one terminal error is sent, nothing is sent after it, and on the
\* channel it is behind every sample buffer
TerminalItemLast ==
    /\ TerminalErrorsSent' <= 1
    /\ TerminalErrorsSent = 1 => Len(chan') <= Len(chan)
    /\ \A i \in 1..Len(chan') : ~chan'[i].ok => i = Len(chan')

\* main's loop leaves rx.recv() for good
StopsReceiving == consumer = "recv" /\ consumer' # "recv"

TakesTerminalItem == chan # << >> /\ ~Head(chan).ok /\ chan' = Tail(chan)

\* C37: at most one terminal error item is ever sent on the channel, it is
\* the last item sent and no sample buffer is enqueued after it; the
\* consumer stops receiving exactly when it takes that item.
C37_TerminalItem ==
    [][/\ TerminalItemLast
       /\ StopsReceiving <=> (consumer = "recv" /\ TakesTerminalItem)]_vars

\* the part of C37 about what is sent
C37_TerminalItemLast == [][TerminalItemLast]_vars

\* the consumer goes on receiving after any item that is not the terminal error
C37_StopsNoLaterThanTerminalItem ==
    [][(consumer = "recv" /\ TakesTerminalItem) => StopsReceiving]_vars

\* ---- 'need' packets against video frames on the channel (qt.rs:446-472) ----
IsFeedPacket(pkt) == IsAsyn(pkt, ASYN_PACKET_MAGIC_FEED)

\* the latest 'feed' handed to the handler got no 'need': the write failed
\* or the handler panicked, which ends the thread
LastFeedUnanswered ==
    /\ dispatched # << >>
    /\ IsFeedPacket(dispatched[Len(dispatched)])
    /\ last_pass.pkt = dispatched[Len(dispatched)]
    /\ last_pass.wrote = << >>

\* 'need' packets written in response to 'feed' packets so far
NeedsForFeeds ==
    Len(SelectSeq(dispatched, IsFeedPacket)) - (IF LastFeedUnanswered THEN 1 ELSE 0)

IsVideoItem(item) == item.ok /\ item.sample.media_type = MEDIA_TYPE_VIDEO

IsVideoSample(sample) == sample.media_type = MEDIA_TYPE_VIDEO

\* video sample buffers the channel has accepted so far: those still in it
\* and those the consumer has taken
VideoAccepted == Len(SelectSeq(chan, IsVideoItem)) + Len(SelectSeq(received, IsVideoSample))

\* C38: at every moment the number of 'need' packets written in response to
\* 'feed' packets exceeds the number of video sample buffers the channel
\* has accepted by at most one.
C38_NeedAheadByOne == order_log => NeedsForFeeds - VideoAccepted <= 1

\* the second 'need' is out, the first frame is accepted and the thread is
\* blocked in tx.send() with the second
C38_Witness ==
    /\ order_log
    /\ NeedsForFeeds = 2
    /\ VideoAccepted = 1
    /\ pc = "send"

\* ---- the differences of Clock::calculate_skew (clock.rs:42-50) ----
SkewRequested ==
    /\ last_pass' # last_pass
    /\ IsSync(last_pass'.pkt, SYNC_PACKET_MAGIC_SKEW)
    /\ qt.start_time_local_audio_clock.some
    /\ qt.start_time_device_audio_clock.some
    /\ qt.last_eat_frame_received_local_audio_clock.some
    /\ qt.last_eat_frame_received_device_audio_clock.some

\* the call the 'skew' arm makes (qt.rs:352-373), in a build that checks overflow
SkewOfSession ==
    CalculateSkew(qt.start_time_local_audio_clock.v,
                  qt.last_eat_frame_received_local_audio_clock.v,
                  qt.start_time_device_audio_clock.v,
                  qt.last_eat_frame_received_device_audio_clock.v, TRUE)

\* C39: for a 'skew' request after recorded 'eat!' times, with s1/e1 the
\* local start/last times and s2/e2 the device start/last times, neither
\* e1.value - s1.value nor e2.value - e1.value underflows, and the divisor
\* e2 - e1 is not zero.
C39_SkewDifferences ==
    [][SkewRequested => ~SkewOfSession.panic /\ ~SkewOfSession.divisor_zero]_vars

\* C40: QTValue::from_qt_packet returns an error value, and does not crash
\* or underflow, for a node with a declared length below 8, a 'bulv' node
\* with an empty body, an 'nmbv' node whose body is shorter than its
\* subtype requires, and an 'idxk' node with fewer than 2 body bytes.
C40_MalformedNodeIsError ==
    (wire_pc = "parsed_value" /\ wire_in \in MalformedNodes) => wire_out.kind = "err"

\* no parse of a malformed node gives a value
C40_MalformedNodeIsNoValue ==
    (wire_pc = "parsed_value" /\ wire_in \in MalformedNodes) => wire_out.kind # "ok"

=============================================================================
